---- MODULE Spec2Model ----
(***************************************************************************)
(* The credential manager (src/src/auth.rs) and the generic OData client   *)
(* (src/src/odata.rs) of the SAP Cloud ALM MCP server, as a state machine. *)
(*                                                                         *)
(* Callers are concurrently scheduled tasks.  Each one calls get_token     *)
(* through the OAuth2Client clone of a domain client, or runs a generic    *)
(* client operation that calls get_token on its way.  Credential strings   *)
(* are opaque values: the access token of a token response is the number   *)
(* of the request it answers, so that a token value identifies its         *)
(* response.  Option<T> is a set with at most one element.                 *)
(***************************************************************************)
EXTENDS Integers, Sequences, FiniteSets, TLC

(* ------------------------------ bounds -------------------------------- *)
NumCallers == 2
NumOpCallers == 1
MaxCalls == 2
MaxTime == 2
MaxSetters == 3
MaxSerializations == 2

Callers == 1..NumCallers
\* the callers that run generic client operations
OpCallers == 1..NumOpCallers
Times == 0..MaxTime
\* one OData-based and one REST-based domain client of main.rs
Clients == {"features", "tasks"}
\* server-declared expires_in values the token endpoint may answer with
Lifetimes == {1, 3}
\* token_refresh_buffer_seconds values of the configuration
TokenBuffers == {1, 2}
\* statuses the token endpoint may answer with
TokenStatuses == {200, 401}

\* StatusCode::is_success
is_success(status) == status >= 200 /\ status <= 299

(* ------------------------------ values -------------------------------- *)
\* credential strings: access tokens are 1, 2, ...
\* the api_key string of a sandbox configuration
ApiKeyValue == 0
\* the empty string (String::default)
NoTokenValue == -1

\* HTTP bodies: json says whether the text is JSON, fields which members
\* the JSON object has; token and expires_in are the values of the
\* access_token and expires_in members when present.
Body(json, fields, tok, expires_in) ==
    [json |-> json, fields |-> fields, token |-> tok, expires_in |-> expires_in]
EmptyBody == Body(FALSE, {}, NoTokenValue, 0)
TextBody == Body(FALSE, {"text"}, NoTokenValue, 0)
ErrorJsonBody == Body(TRUE, {"error"}, NoTokenValue, 0)
TokenJsonNoType(tok, expires_in) ==
    Body(TRUE, {"access_token", "expires_in"}, tok, expires_in)
TokenJson(tok, expires_in) ==
    Body(TRUE, {"access_token", "token_type", "expires_in"}, tok, expires_in)

\* a response as the HTTP transport hands it over, or a transport failure
HttpResponse(status, body) == [transport_error |-> FALSE, status |-> status, body |-> body]
TransportFailure == [transport_error |-> TRUE, status |-> 0, body |-> EmptyBody]
NoResponse == [transport_error |-> FALSE, status |-> 0, body |-> EmptyBody]

\* Result<String, AuthError>
Res(kind, tok, err, msg, status, body) ==
    [kind |-> kind, token |-> tok, err |-> err, msg |-> msg, status |-> status, body |-> body]
NoResult == Res("None", NoTokenValue, "", "", 0, EmptyBody)
Ok(tok) == Res("Ok", tok, "", "", 0, EmptyBody)
Err(err, msg) == Res("Err", NoTokenValue, err, msg, 0, EmptyBody)
ErrStatus(err, status, body) == Res("Err", NoTokenValue, err, "", status, body)
Panic(msg) == Res("Panic", NoTokenValue, "", msg, 0, EmptyBody)

\* the only element of an Option that is Some
The(opt) == CHOOSE x \in opt : TRUE

(* ------------------------ generic client values ----------------------- *)
\* resource bodies: text is the raw text, json says whether it is JSON,
\* members which members of the JSON object a deserializer finds with the
\* type it asks for, code and message the values of error.code and
\* error.message when they are strings
\* The bytes of a text are laid out as runs of characters of equal UTF-8
\* width: n characters of w bytes each.
Run(n, w) == [n |-> n, w |-> w]
Ascii(n) == IF n = 0 THEN <<>> ELSE <<Run(n, 1)>>

\* str::len: the length in bytes
RECURSIVE ByteLen(_)
ByteLen(runs) ==
    IF runs = <<>> THEN 0 ELSE Head(runs).n * Head(runs).w + ByteLen(Tail(runs))

\* str::is_char_boundary
RECURSIVE is_char_boundary(_, _)
is_char_boundary(runs, b) ==
    IF b = 0 THEN TRUE
    ELSE IF runs = <<>> THEN FALSE
    ELSE LET size == Head(runs).n * Head(runs).w
         IN IF b >= size THEN is_char_boundary(Tail(runs), b - size)
            ELSE b % Head(runs).w = 0

\* &s[..b] for a b that is a character boundary
RECURSIVE SliceTo(_, _)
SliceTo(runs, b) ==
    IF b = 0 \/ runs = <<>> THEN <<>>
    ELSE LET size == Head(runs).n * Head(runs).w
         IN IF b >= size THEN <<Head(runs)>> \o SliceTo(Tail(runs), b - size)
            ELSE <<Run(b \div Head(runs).w, Head(runs).w)>>

\* a body whose text has characters of more than one byte; chars is the
\* layout of the text
ResourceBodyUtf8(text, chars, json, members, code, message) ==
    [text |-> text, chars |-> chars, json |-> json, members |-> members,
     code |-> code, message |-> message]

\* a body of one-byte characters
ResourceBody(text, json, members, code, message) ==
    ResourceBodyUtf8(text, Ascii(Len(text)), json, members, code, message)
NoContent == ResourceBody("", FALSE, {}, "", "")
CollectionJson == ResourceBody("{\"value\":[]}", TRUE, {"value"}, "", "")
EnvelopeJson ==
    ResourceBody("{\"error\":{\"code\":\"404\",\"message\":\"not found\"}}",
                 TRUE, {"error", "error.code", "error.message"}, "404", "not found")
OtherJson == ResourceBody("{\"msg\": \"oops\"}", TRUE, {"msg"}, "", "")
PlainText == ResourceBody("Not Found", FALSE, {}, "", "")
ArrayJson == ResourceBody("[]", TRUE, {}, "", "")
ErrorStringJson == ResourceBody("{\"error\":\"boom\"}", TRUE, {"error"}, "", "")
NumericCodeJson ==
    ResourceBody("{\"error\":{\"code\":404,\"message\":\"not found\"}}",
                 TRUE, {"error", "error.message"}, "", "not found")
NoMessageJson ==
    ResourceBody("{\"error\":{\"code\":\"404\"}}", TRUE, {"error", "error.code"}, "404", "")
EnvelopeExtraJson ==
    ResourceBody("{\"error\":{\"code\":\"E1\",\"message\":\"denied\",\"target\":\"x\"},\"id\":1}",
                 TRUE, {"error", "error.code", "error.message", "error.target", "id"},
                 "E1", "denied")
EnvelopeDetailsJson ==
    ResourceBody("{\"error\":{\"code\":\"E2\",\"message\":\"bad\",\"details\":[{\"message\":\"m\"}]}}",
                 TRUE, {"error", "error.code", "error.message", "error.details",
                        "error.details[].message"}, "E2", "bad")
BadDetailsJson ==
    ResourceBody("{\"error\":{\"code\":\"E3\",\"message\":\"bad\",\"details\":[{\"code\":\"c\"}]}}",
                 TRUE, {"error", "error.code", "error.message", "error.details"}, "E3", "bad")

\* bodies a 2xx response may carry that are no JSON at all: an HTML page of
\* 250 one-byte characters, one of exactly 200, a short text with two-byte
\* characters, and long texts in which a two-byte character ends at byte
\* 200 or lies across it
LongText == ResourceBodyUtf8("<html>..250 bytes..</html>", Ascii(250), FALSE, {}, "", "")
ExactText == ResourceBodyUtf8("<html>..200 bytes..</html>", Ascii(200), FALSE, {}, "", "")
ShortUtf8Text ==
    ResourceBodyUtf8("..23 bytes..u-umlaut..3 bytes..", <<Run(23, 1), Run(1, 2), Run(3, 1)>>,
                     FALSE, {}, "", "")
AlignedUtf8Text ==
    ResourceBodyUtf8("..198 bytes..e-acute..50 bytes..", <<Run(198, 1), Run(1, 2), Run(50, 1)>>,
                     FALSE, {}, "", "")
StraddlingUtf8Text ==
    ResourceBodyUtf8("..199 bytes..e-acute..50 bytes..", <<Run(199, 1), Run(1, 2), Run(50, 1)>>,
                     FALSE, {}, "", "")
UnparsableBodies == {LongText, ExactText, ShortUtf8Text, AlignedUtf8Text, StraddlingUtf8Text}

ResourceResponse(status, body) == [transport_error |-> FALSE, status |-> status, body |-> body]
ResourceTransportFailure == [transport_error |-> TRUE, status |-> 0, body |-> NoContent]
NoHttp == ResourceResponse(0, NoContent)

\* what the resource server may answer
ResourceStatuses == {200, 204, 401, 404, 500}
ResourceResponses ==
    {ResourceTransportFailure}
    \cup { ResourceResponse(st, b) :
             st \in ResourceStatuses, b \in {NoContent, CollectionJson, EnvelopeJson, OtherJson} }
    \cup { ResourceResponse(200, b) : b \in UnparsableBodies }

\* a resource request on the wire
Request(method, u, header) == [method |-> method, url |-> u, header |-> header]
NoRequest == Request("", <<>>, <<>>)

\* Result<T, ApiError>; cause is the AuthError inside ApiError::Auth
ApiRes(kind, err, status, code, message, body, cause) ==
    [kind |-> kind, err |-> err, status |-> status, code |-> code, message |-> message,
     body |-> body, cause |-> cause]
NoApiResult == ApiRes("None", "", 0, "", "", NoContent, NoResult)
ApiOk(body) == ApiRes("Ok", "", 0, "", "", body, NoResult)
ApiErr(err, status, code, message, body) == ApiRes("Err", err, status, code, message, body, NoResult)
\* ApiError::from(AuthError) (error.rs 44-45); a panic unwinds through the caller
ApiAuthFailure(r) ==
    IF r.kind = "Panic" THEN ApiRes("Panic", "", 0, "", "", NoContent, r)
    ELSE ApiRes("Err", "Auth", 0, "", "", NoContent, r)

Verbs == {"GET", "POST", "PATCH", "DELETE"}
\* the domain clients built on ODataClient
ODataClients == {"features"}
\* the domain clients that do their own HTTP (tasks, projects, logs)
RestClients == Clients \ ODataClients

\* base URL of a domain client's ODataClient
BaseUrl(k) == IF k = "features" THEN <<"https://x", "/Features">> ELSE <<"https://x", "/", k>>

\* a URL assembly that leaves the endpoint out
OperationUrlWithoutEndpoint(base, verb, endpoint, key) == base \o <<"/", key>>

\* URL assembly of get_entity_by_uuid, create_entity, update_entity_by_uuid
\* and delete_entity_by_uuid (odata.rs 245, 271, 282, 288)
OperationUrl(base, verb, endpoint, key) ==
    IF verb = "POST" THEN base \o <<endpoint>> ELSE base \o <<endpoint, "/", key>>

\* ODataClient::auth_header; is_sandbox is self.is_sandbox
auth_header(is_sandbox, token) ==
    IF is_sandbox THEN <<"APIKey", <<token>>>>
    ELSE <<"Authorization", <<"Bearer ", token>>>>

\* TasksClient::auth_header
tasks_auth_header(is_sandbox, token) ==
    IF is_sandbox THEN <<"APIKey", <<token>>>>
    ELSE <<"Authorization", <<"Bearer ", token>>>>

\* URL assembly of get_task and delete_task (tasks.rs 206, 229)
TaskUrl(base, id) == base \o <<"/tasks", "/", id>>

\* a deserializer that is content with any JSON object that has an error member
DeserializeErrorLenient(body) ==
    IF body.json /\ "error" \in body.members
    THEN {[code |-> body.code, message |-> body.message]}
    ELSE {}

\* serde_json::from_str::<ODataErrorResponse> (odata.rs 144-165): error is
\* required, in it code and message are required strings, details may be
\* absent and otherwise is a list of items that each have a message
DeserializeErrorResponse(body) ==
    IF /\ body.json
       /\ {"error", "error.code", "error.message"} \subseteq body.members
       /\ "error.details" \in body.members => "error.details[].message" \in body.members
    THEN {[code |-> body.code, message |-> body.message]}
    ELSE {}

\* ODataClient::parse_error_response
parse_error_response(status, body) ==
    IF DeserializeErrorResponse(body) # {}
    THEN ApiErr("ODataError", status, The(DeserializeErrorResponse(body)).code,
                The(DeserializeErrorResponse(body)).message, NoContent)
    ELSE ApiErr("HttpError", status, "", "", body)

\* what parse_error_response is handed in the checks of the normalizer alone
ErrorStatuses == {200, 301, 400, 401, 403, 404, 409, 500, 503}
ErrorBodies ==
    {NoContent, PlainText, ArrayJson, OtherJson, CollectionJson, ErrorStringJson,
     NumericCodeJson, NoMessageJson, EnvelopeJson, EnvelopeExtraJson,
     EnvelopeDetailsJson, BadDetailsJson}

\* serde_json::from_str into the target type, here ODataCollection<T>, whose
\* value member is required; Option: the parsed body
DeserializeTarget(body) ==
    IF body.json /\ "value" \in body.members THEN {body} ELSE {}

\* the length of the body excerpt in the parse error (odata.rs 413)
ExcerptLimit == 200

Min(a, b) == IF a <= b THEN a ELSE b

\* &body[..body.len().min(200)] (odata.rs 413): the slice panics when its
\* end is not a character boundary; of an excerpt shorter than the body the
\* model keeps the layout and not the text
Excerpt(body) ==
    LET end == Min(ByteLen(body.chars), ExcerptLimit)
    IN IF ~is_char_boundary(body.chars, end) THEN [panic |-> TRUE, body |-> NoContent]
       ELSE IF end = ByteLen(body.chars) THEN [panic |-> FALSE, body |-> body]
       ELSE [panic |-> FALSE,
             body |-> ResourceBodyUtf8("", SliceTo(body.chars, end), FALSE, {}, "", "")]

\* a panic of the client's own code unwinds through the operation
ApiPanic == ApiRes("Panic", "", 0, "", "", NoContent, NoResult)

\* ODataClient::handle_response, debug logging off
handle_response(r) ==
    IF is_success(r.status)
    THEN IF DeserializeTarget(r.body) # {} THEN ApiOk(r.body)
         ELSE IF Excerpt(r.body).panic THEN ApiPanic
         ELSE ApiErr("JsonParse", 0, "", "", Excerpt(r.body).body)
    ELSE parse_error_response(r.status, r.body)

\* a delete that hands its response to handle_response as the other verbs do
delete_response_reading_body(r) == handle_response(r)

\* the response interpretation of execute_delete (odata.rs 381-387)
delete_response(r) ==
    IF is_success(r.status) \/ r.status = 204 THEN ApiOk(NoContent)
    ELSE parse_error_response(r.status, r.body)

\* response.json::<Task>(): every member of Task is optional, so any JSON
\* object will do
DeserializeTask(body) ==
    IF body.json /\ body # ArrayJson THEN {body} ELSE {}

\* a tasks client that hands error bodies to the normalizer of the generic client
tasks_response_normalizing(verb, r) ==
    IF verb = "DELETE" THEN delete_response(r)
    ELSE IF is_success(r.status)
         THEN IF DeserializeTask(r.body) # {} THEN ApiOk(r.body)
              ELSE ApiErr("Request", 0, "", "", NoContent)
    ELSE parse_error_response(r.status, r.body)

\* the response interpretation of TasksClient::get and TasksClient::delete
\* (tasks.rs 287-293, 379-382): a body that is not a Task is a reqwest
\* error, a non-2xx status the HTTP error with the body as it is
tasks_response(verb, r) ==
    IF verb = "DELETE"
    THEN IF is_success(r.status) \/ r.status = 204 THEN ApiOk(NoContent)
         ELSE ApiErr("HttpError", r.status, "", "", r.body)
    ELSE IF is_success(r.status)
         THEN IF DeserializeTask(r.body) # {} THEN ApiOk(r.body)
              ELSE ApiErr("Request", 0, "", "", NoContent)
    ELSE ApiErr("HttpError", r.status, "", "", r.body)

\* what an operation of domain client k makes of the response r
Interpret(k, verb, r) ==
    IF r.transport_error THEN ApiErr("Request", 0, "", "", NoContent)
    ELSE IF k \in RestClients THEN tasks_response(verb, r)
    ELSE IF verb = "DELETE" THEN delete_response(r)
    ELSE handle_response(r)

\* unwrap_or_default instead of `?`: the operation goes on with an empty token
TokenOrDefault(r) == IF r.kind = "Ok" THEN {r.token} ELSE {NoTokenValue}

\* `get_token().await?` in execute_get/post/patch/delete: Option: the token
\* the operation goes on with
TokenOrReturn(r) == IF r.kind = "Ok" THEN {r.token} ELSE {}

(* ---------------------------- query builder --------------------------- *)
\* A text is a sequence of pieces; a piece is one character that
\* urlencoding::encode escapes, or a run of characters it leaves alone
\* (letters, digits, '-', '_', '.', '~').
Escaped == [c \in {" ", "'", "&", "=", "?", ","} |->
              CASE c = " " -> "%20"
                [] c = "'" -> "%27"
                [] c = "&" -> "%26"
                [] c = "=" -> "%3D"
                [] c = "?" -> "%3F"
                [] c = "," -> "%2C"]

\* urlencoding::encode
EncodeSpacesOnly(text) ==
    [i \in 1..Len(text) |-> IF text[i] = " " THEN "%20" ELSE text[i]]

Encode(text) ==
    [i \in 1..Len(text) |-> IF text[i] \in DOMAIN Escaped THEN Escaped[text[i]] ELSE text[i]]

\* [String]::join(sep)
RECURSIVE Join(_, _)
Join(texts, sep) ==
    IF texts = <<>> THEN <<>>
    ELSE IF Len(texts) = 1 THEN texts[1]
    ELSE texts[1] \o sep \o Join(Tail(texts), sep)

Digits == <<"0", "1", "2", "3", "4", "5", "6", "7", "8", "9">>

\* format!("{}", n) of a u32
RECURSIVE Decimal(_)
Decimal(n) ==
    IF n < 10 THEN <<Digits[n + 1]>>
    ELSE Decimal(n \div 10) \o <<Digits[(n % 10) + 1]>>

\* ODataQuery::new, i.e. Default: every Option None, count false
ODataQueryNew ==
    [filter |-> {}, select |-> {}, expand |-> {}, orderby |-> {}, top |-> {},
     skip |-> {}, count |-> FALSE, search |-> {}]

\* the setters of ODataQuery (odata.rs 38-72)
filter(q, text) == [q EXCEPT !.filter = {text}]
select(q, fields) == [q EXCEPT !.select = {fields}]
expand(q, relations) == [q EXCEPT !.expand = {relations}]
\* a second call that replaced the entries of the first
orderby_replacing(q, field, order) ==
    [q EXCEPT !.orderby = {<<[field |-> field, order |-> order]>>}]

orderby(q, field, order) ==
    [q EXCEPT !.orderby =
        {(IF @ = {} THEN <<>> ELSE The(@)) \o <<[field |-> field, order |-> order]>>}]
\* a top that starts the paging over
top_resetting_skip(q, limit) == [q EXCEPT !.top = {limit}, !.skip = {}]

top(q, limit) == [q EXCEPT !.top = {limit}]
skip(q, offset) == [q EXCEPT !.skip = {offset}]

\* an entry whose space is percent-encoded
OrderEntryEncoded(e) == e.field \o <<"%20">> \o <<IF e.order = "Asc" THEN "asc" ELSE "desc">>

\* one $orderby entry: format!("{} {}", field, dir)
OrderEntry(e) == e.field \o <<" ">> \o <<IF e.order = "Asc" THEN "asc" ELSE "desc">>

\* the params vector of to_query_string, facet by facet (odata.rs 76-118)
FilterParam(q) ==
    IF q.filter = {} THEN <<>> ELSE << <<"$filter=">> \o Encode(The(q.filter)) >>
SelectParam(q) ==
    IF q.select = {} THEN <<>> ELSE << <<"$select=">> \o Join(The(q.select), <<",">>) >>
ExpandParam(q) ==
    IF q.expand = {} THEN <<>> ELSE << <<"$expand=">> \o Join(The(q.expand), <<",">>) >>
OrderbyParam(q) ==
    IF q.orderby = {} THEN <<>>
    ELSE << <<"$orderby=">>
            \o Join([i \in 1..Len(The(q.orderby)) |-> OrderEntry(The(q.orderby)[i])], <<",">>) >>
TopParam(q) == IF q.top = {} THEN <<>> ELSE << <<"$top=">> \o Decimal(The(q.top)) >>
SkipParam(q) == IF q.skip = {} THEN <<>> ELSE << <<"$skip=">> \o Decimal(The(q.skip)) >>
CountParam(q) == IF q.count THEN << <<"$count=true">> >> ELSE <<>>
SearchParam(q) ==
    IF q.search = {} THEN <<>> ELSE << <<"$search=">> \o Encode(The(q.search)) >>

Params(q) ==
    FilterParam(q) \o SelectParam(q) \o ExpandParam(q) \o OrderbyParam(q)
    \o TopParam(q) \o SkipParam(q) \o CountParam(q) \o SearchParam(q)

\* a serialization that writes the '?' whether or not there are params
to_query_string_marked(q) == <<"?">> \o Join(Params(q), <<"&">>)

\* ODataQuery::to_query_string
to_query_string(q) ==
    IF Params(q) = <<>> THEN <<>> ELSE <<"?">> \o Join(Params(q), <<"&">>)

\* a serialization that takes the orderby entries out of the builder
DrainedSelf(q) == [q EXCEPT !.orderby = {}]

\* to_query_string takes &self: the builder after the call
BorrowedSelf(q) == q

\* #[derive(Clone)] on ODataQuery
CloneQuery(q) == q

\* the arguments tasks hand to the setters
FilterTexts ==
    { <<"projectId", " ", "eq", " ", "'", "abc", "'">>,
      <<"name", " ", "eq", " ", "'", "O", "'", "Reilly", " ", "&", " ", "Sons", "'">> }
FieldLists == { << <<"id">>, <<"title">> >> }
RelationLists == { << <<"toProject">>, <<"toStatus">> >> }
OrderFields == { <<"status">>, <<"modifiedAt">> }
SortOrder == {"Asc", "Desc"}
\* the orderby calls made: one ascending, one descending
OrderbyArgs ==
    { a \in OrderFields \X SortOrder :
        a \in { << <<"status">>, "Asc" >>, << <<"modifiedAt">>, "Desc" >> } }
TopValues == {50}
SkipValues == {0}

\* a setter call: the setter's name and its arguments
SetterCall(name, arg, order) == [name |-> name, arg |-> arg, order |-> order]
SetterCalls ==
    { SetterCall("filter", t, "") : t \in FilterTexts }
    \cup { SetterCall("select", f, "") : f \in FieldLists }
    \cup { SetterCall("expand", r, "") : r \in RelationLists }
    \cup { SetterCall("orderby", a[1], a[2]) : a \in OrderbyArgs }
    \cup { SetterCall("top", n, "") : n \in TopValues }
    \cup { SetterCall("skip", n, "") : n \in SkipValues }

\* the builder a setter call returns
Apply(q, c) ==
    CASE c.name = "filter" -> filter(q, c.arg)
      [] c.name = "select" -> select(q, c.arg)
      [] c.name = "expand" -> expand(q, c.arg)
      [] c.name = "orderby" -> orderby(q, c.arg, c.order)
      [] c.name = "top" -> top(q, c.arg)
      [] c.name = "skip" -> skip(q, c.arg)

\* the builder a sequence of setter calls makes of ODataQuery::new()
RECURSIVE Build(_)
Build(cs) ==
    IF cs = <<>> THEN ODataQueryNew ELSE Apply(Build(SubSeq(cs, 1, Len(cs) - 1)), cs[Len(cs)])

(* --------------------------- features client -------------------------- *)
\* bodies of a 200 answer to a list of features: one feature with its uuid,
\* and one feature without
FeatureListJson ==
    ResourceBody("{\"value\":[{\"uuid\":\"u-1\",\"displayId\":\"6-123\"}]}", TRUE,
                 {"value", "value[0]", "value[0].uuid", "value[0].displayId"}, "", "")
FeatureNoUuidJson ==
    ResourceBody("{\"value\":[{\"displayId\":\"6-123\"}]}", TRUE,
                 {"value", "value[0]", "value[0].displayId"}, "", "")

\* what the resource server may answer to a FeaturesClient: nothing, a 200
\* with a list (empty, or of a feature with or without uuid), with JSON
\* that is no list, with no body or with text that is no JSON, and errors
\* with and without the OData envelope
FeatureResponses ==
    {ResourceTransportFailure}
    \cup { ResourceResponse(200, b) :
             b \in {CollectionJson, FeatureListJson, FeatureNoUuidJson, OtherJson, NoContent,
                    ArrayJson, LongText, ShortUtf8Text, StraddlingUtf8Text} }
    \cup { ResourceResponse(st, b) :
             st \in {401, 404, 500}, b \in {NoContent, EnvelopeJson, OtherJson} }

\* the arguments tasks hand to the operations of FeaturesClient
FeatureUuids == {"abc-123"}
DisplayIds == {"6-123"}
ExpandArgs == {<<>>, << <<"toStatus">> >>} \cup RelationLists

\* serde_json::from_str into the target type of the operation:
\* ODataCollection<Feature> needs its value member, Feature (every field an
\* Option) takes any JSON object, serde_json::Value any JSON
Deserialize(target, body) ==
    IF target = "ODataCollection" THEN DeserializeTarget(body)
    ELSE IF target = "Feature" THEN (IF body.json /\ body # ArrayJson THEN {body} ELSE {})
    ELSE IF body.json THEN {body} ELSE {}

\* execute_get::<T> after the request was sent (odata.rs 307-309, 390-424)
execute_get_response(target, r) ==
    IF r.transport_error THEN ApiErr("Request", 0, "", "", NoContent)
    ELSE IF is_success(r.status)
    THEN IF Deserialize(target, r.body) # {} THEN ApiOk(r.body)
         ELSE IF Excerpt(r.body).panic THEN ApiPanic
         ELSE ApiErr("JsonParse", 0, "", "", Excerpt(r.body).body)
    ELSE parse_error_response(r.status, r.body)

\* collection.value of a parsed list of features: the uuid of each
FeaturesOf(body) ==
    IF "value[0]" \notin body.members THEN <<>>
    ELSE << [uuid |-> IF "value[0].uuid" \in body.members THEN {"u-1"} ELSE {}] >>

\* an expand suffix written whether or not there is anything to expand
get_entity_with_expand_url_marked(base, endpoint, key, relations) ==
    base \o <<endpoint, "/", key>> \o <<"?$expand=">> \o Join(relations, <<",">>)

\* URL assembly of get_entity_with_expand (odata.rs 256-261)
get_entity_with_expand_url(base, endpoint, key, relations) ==
    base \o <<endpoint, "/", key>>
    \o (IF relations = <<>> THEN <<>> ELSE <<"?$expand=">> \o Join(relations, <<",">>))

\* the query of get_feature_by_display_id (features.rs 142-144)
DisplayIdQuery(display_id) ==
    top(filter(ODataQueryNew, <<"displayId", " ", "eq", " ", "'", display_id, "'">>), 1)

\* URL assembly of get_collection (odata.rs 213-218) with Some(query)
get_collection_url(base, endpoint, q) == base \o <<endpoint>> \o to_query_string(q)

NotFoundBody == ResourceBody("Feature with displayId '6-123' not found", FALSE, {}, "", "")
MissingUuidBody == ResourceBody("Feature UUID is missing", FALSE, {}, "", "")

\* get_feature_by_display_id after list_features returned listed
\* (features.rs 145-151): its error, or NOT_FOUND for an empty list, or the
\* first feature
get_feature_by_display_id(listed) ==
    IF listed.kind # "Ok" THEN [result |-> listed, feature |-> {}]
    ELSE IF FeaturesOf(listed.body) = <<>>
    THEN [result |-> ApiErr("HttpError", 404, "", "", NotFoundBody), feature |-> {}]
    ELSE [result |-> ApiOk(listed.body), feature |-> {Head(FeaturesOf(listed.body))}]

\* get_feature_by_display_id_with_expand between its two requests
\* (features.rs 170-174): what it returns without a second request, or
\* the uuid it goes on with
UuidOrReturn(found) ==
    IF found.feature = {} THEN [result |-> found.result, uuid |-> {}]
    ELSE IF The(found.feature).uuid = {}
    THEN [result |-> ApiErr("HttpError", 500, "", "", MissingUuidBody), uuid |-> {}]
    ELSE [result |-> NoApiResult, uuid |-> The(found.feature).uuid]

\* the FeaturesClient operation a caller is in: its name, the request it
\* is at, its expand argument and what list_features returned to it
FeatureCall(fn, stage, relations, listed) ==
    [fn |-> fn, stage |-> stage, expand |-> relations, listed |-> listed]
NoFeatureCall == FeatureCall("none", "none", <<>>, NoApiResult)

(* --------------------------- configuration ---------------------------- *)
MkConfig(sandbox, api_key, tenant, region, client_id, client_secret, buffer) ==
    [sandbox |-> sandbox, api_key |-> api_key, tenant |-> tenant, region |-> region,
     client_id |-> client_id, client_secret |-> client_secret,
     token_refresh_buffer_seconds |-> buffer]

\* the configurations an OAuth2Client is constructed from: sandbox ones with
\* and without a key, OAuth2 ones with every combination of absent fields
Configs ==
    { MkConfig(TRUE, k, {}, {}, {}, {}, b) :
        k \in {{}, {ApiKeyValue}}, b \in TokenBuffers }
    \cup
    { MkConfig(FALSE, {}, t, r, i, s, b) :
        t \in {{}, {"acme"}}, r \in {{}, {"eu10"}},
        i \in {{}, {"id"}}, s \in {{}, {"secret"}}, b \in TokenBuffers }

ValidRegions == {"eu10", "eu20", "us10", "ap10", "jp10", "eu10-004", "ca10", "eu11", "cn20"}

\* a validation that does not look at the client secret
ValidateWithoutSecret(c) ==
    IF c.sandbox
    THEN c.api_key # {} /\ NoTokenValue \notin c.api_key
    ELSE /\ c.tenant # {} /\ "" \notin c.tenant
         /\ c.region # {} /\ "" \notin c.region
         /\ c.client_id # {} /\ "" \notin c.client_id
         /\ c.region \subseteq ValidRegions

\* Config::validate: TRUE when the configuration is accepted
Validate(c) ==
    IF c.sandbox
    THEN c.api_key # {} /\ NoTokenValue \notin c.api_key
    ELSE /\ c.tenant # {} /\ "" \notin c.tenant
         /\ c.region # {} /\ "" \notin c.region
         /\ c.client_id # {} /\ "" \notin c.client_id
         /\ c.client_secret # {} /\ "" \notin c.client_secret
         /\ c.region \subseteq ValidRegions

\* Config::token_url: None in sandbox mode, a panic without tenant or region
token_url(c) ==
    IF c.sandbox THEN [panic |-> FALSE, url |-> {}]
    ELSE IF c.tenant = {} \/ c.region = {} THEN [panic |-> TRUE, url |-> {}]
    ELSE [panic |-> FALSE,
          url |-> { <<"https://", t, ".authentication.", r, ".hana.ondemand.com/oauth/token">> :
                    t \in c.tenant, r \in c.region }]

\* Config::token_buffer
token_buffer(c) == c.token_refresh_buffer_seconds

\* OAuth2Client::is_sandbox, of a client constructed from c
is_sandbox(c) == c.sandbox

\* a constructor that leaves the mode at the default of bool
ODataClientNewDefaultMode(base_url, c) == [base_url |-> base_url, is_sandbox |-> FALSE]

\* ODataClient::new (odata.rs 181-195): the mode is read once, from the
\* OAuth2Client handed in, which was constructed from c
ODataClientNew(base_url, c) == [base_url |-> base_url, is_sandbox |-> is_sandbox(c)]

\* TasksClient::new (tasks.rs 146-160)
TasksClientNew(base_url, c) == [base_url |-> base_url, is_sandbox |-> is_sandbox(c)]

(* --------------------------- token cache ------------------------------ *)
\* Option<CachedToken> as it lies in memory.  from records where the stored
\* expires_at comes from: the token of the response it was computed for, the
\* clock reading and the expires_in it was computed from, and the domain
\* client whose call stored it.
Origin(tok, at, expires_in, client) ==
    [token |-> tok, at |-> at, expires_in |-> expires_in, client |-> client]
NoOrigin == Origin(NoTokenValue, 0, 0, "")
CacheCell(some, tok, expires_at, from) ==
    [some |-> some, access_token |-> tok, expires_at |-> expires_at, from |-> from]
EmptyCache == CacheCell(FALSE, NoTokenValue, 0, NoOrigin)

\* the cells an Arc may point to: the one OAuth2Client::new allocates, and the
\* ones a deep copy per domain client would allocate
RootRef == "root"
CacheRefs == {RootRef} \cup Clients

\* OAuth2Client::new: a fresh, empty cache behind an Arc
OAuth2ClientNew == [token_cache |-> RootRef]

\* a clone that copies the cache into a cell of its own instead of sharing it
CloneOAuth2ClientDeep(auth, fresh) == [token_cache |-> fresh]

\* #[derive(Clone)] on OAuth2Client: the Arc is cloned, the cell is shared
CloneOAuth2Client(auth, fresh) == auth

\* an expiry test that lets a token through at the very edge of the buffer
is_expired_strict(cached, clock, buffer) == clock + buffer > cached.expires_at

\* CachedToken::is_expired, with Utc::now() passed in
is_expired(cached, clock, buffer) == clock + buffer >= cached.expires_at

\* an expiry shortened by the refresh buffer at fetch time
ExpiresAtMinusBuffer(clock, expires_in, buffer) == clock + expires_in - buffer

\* the expiry fetch_token computes from Utc::now() and expires_in
ExpiresAt(clock, expires_in, buffer) == clock + expires_in

\* a lock that lets readers in while a writer is at work
CanReadDuringWrite(rd, wr) == TRUE

\* RwLock: a reader enters when no writer holds the lock
CanRead(rd, wr) == wr = {}
\* RwLock: a writer enters when nobody holds the lock
CanWrite(rd, wr) == wr = {} /\ rd = {}

\* TokenResponse deserialization: access_token, token_type and expires_in
\* are required members
ParseTokenResponse(body) ==
    IF body.json /\ {"access_token", "token_type", "expires_in"} \subseteq body.fields
    THEN {[access_token |-> body.token, expires_in |-> body.expires_in]}
    ELSE {}




(* ------------------------------- state -------------------------------- *)
VARIABLES
    config,          \* the Config every component was constructed from
    auth_client,     \* per domain client: its OAuth2Client clone
    odata_client,    \* per OData-based domain client: its ODataClient
    rest_client,     \* per REST-based domain client: the client itself
    now,             \* the wall clock, Utc::now()
    token_cache,     \* per cell: Option<CachedToken>
    readers,         \* callers holding the RwLock for reading
    writer,          \* callers holding the RwLock for writing (at most one)
    token_requests,  \* token requests issued so far
    calls,           \* get_token calls started so far
    overlap,         \* some call started while another was running
    cross_hit,       \* some cache hit was served through another domain client
                     \* than the one the credential was stored through
    pc,              \* per caller: where it stands
    via,             \* per caller: the domain client it goes through
    req_no,          \* per caller: number of the token request of this call, 0 if none
    response,        \* per caller: the token endpoint's response, kept when it failed
    cached,          \* per caller: the CachedToken fetch_token is about to store
    result,          \* per caller: what get_token returned
    op,              \* per caller: the HTTP verb of its client operation, or "none"
    url,             \* per caller: the URL the operation assembled
    steps,           \* per caller: the steps the operation has gone through
    request,         \* per caller: the resource request the operation issued
    http,            \* per caller: the resource response it received
    api_result,      \* per caller: what the client operation returned
    resource_requests, \* resource requests issued so far
    feature_call,    \* per caller: the FeaturesClient operation it is in
    query,           \* an ODataQuery under construction
    setters,         \* the setter calls made on it, in call order
    serialized,      \* what the to_query_string calls returned since the last setter call
    copy,            \* Option: a clone of the builder
    copy_serialized, \* Option: what to_query_string returned for the clone
    err_status,      \* a status handed to parse_error_response
    err_body,        \* the body handed to it
    err_result       \* what it returned

vars == <<config, auth_client, odata_client, rest_client, now, token_cache, readers, writer, token_requests,
          calls, overlap, cross_hit, pc, via, req_no, response, cached, result,
          op, url, steps, request, http, api_result, resource_requests, feature_call,
          query, setters, serialized, copy, copy_serialized,
          err_status, err_body, err_result>>

\* the generic client's variables a step of get_token leaves alone
clientVars == <<odata_client, rest_client, op, url, request, http, api_result, resource_requests>>

\* the query builder and the error normalizer taken on their own
builderVars == <<query, setters, serialized, copy, copy_serialized>>
normalizerVars == <<err_status, err_body, err_result>>
featureVars == <<feature_call>>
\* what get_token and the generic client operations leave alone
pureVars == <<builderVars, normalizerVars, featureVars>>

\* the cell a caller's OAuth2Client clone points to
CellOf(p) == auth_client[via[p]].token_cache

Running(p) == pc[p] \notin {"idle", "returned"}

\* main (main.rs 74-131): one OAuth2Client, cloned into every domain client
MainInit ==
    /\ config \in Configs
    /\ auth_client = [k \in Clients |-> CloneOAuth2Client(OAuth2ClientNew, k)]
    /\ odata_client = [k \in ODataClients |-> ODataClientNew(BaseUrl(k), config)]
    /\ rest_client = [k \in RestClients |-> TasksClientNew(BaseUrl(k), config)]
    /\ now = 0
    /\ token_cache = [r \in CacheRefs |-> EmptyCache]
    /\ readers = {}
    /\ writer = {}
    /\ token_requests = 0
    /\ calls = 0
    /\ overlap = FALSE
    /\ cross_hit = FALSE
    /\ pc = [p \in Callers |-> "idle"]
    /\ via = [p \in Callers |-> "features"]
    /\ req_no = [p \in Callers |-> 0]
    /\ response = [p \in Callers |-> NoResponse]
    /\ cached = [p \in Callers |-> EmptyCache]
    /\ result = [p \in Callers |-> NoResult]
    /\ op = [p \in Callers |-> "none"]
    /\ url = [p \in Callers |-> <<>>]
    /\ steps = [p \in Callers |-> <<>>]
    /\ request = [p \in Callers |-> NoRequest]
    /\ http = [p \in Callers |-> NoHttp]
    /\ api_result = [p \in Callers |-> NoApiResult]
    /\ resource_requests = 0
    /\ feature_call = [p \in Callers |-> NoFeatureCall]

\* a fresh builder nobody has touched
BuilderInit ==
    /\ query = ODataQueryNew
    /\ setters = <<>>
    /\ serialized = <<>>
    /\ copy = {}
    /\ copy_serialized = {}

\* the normalizer not called
NormalizerIdle ==
    /\ err_status = 0
    /\ err_body = NoContent
    /\ err_result = NoApiResult

Init == MainInit /\ BuilderInit /\ NormalizerIdle

\* a task starts a call through domain client k: verb is the HTTP verb of
\* a client operation that has assembled the URL u, or "none" for a bare
\* get_token call; either way get_token is entered next
BeginCall(p, k, verb, u) ==
    /\ calls < MaxCalls
    /\ ~Running(p)
    /\ calls' = calls + 1
    /\ overlap' = (overlap \/ \E q \in Callers \ {p} : Running(q))
    /\ via' = [via EXCEPT ![p] = k]
    /\ response' = [response EXCEPT ![p] = NoResponse]
    /\ result' = [result EXCEPT ![p] = NoResult]
    /\ op' = [op EXCEPT ![p] = verb]
    /\ url' = [url EXCEPT ![p] = u]
    /\ steps' = [steps EXCEPT ![p] = IF verb = "none" THEN <<>> ELSE <<"url">>]
    /\ request' = [request EXCEPT ![p] = NoRequest]
    /\ http' = [http EXCEPT ![p] = NoHttp]
    /\ api_result' = [api_result EXCEPT ![p] = NoApiResult]
    /\ pc' = [pc EXCEPT ![p] = "get_token"]
    /\ UNCHANGED <<config, auth_client, odata_client, rest_client, now, token_cache, readers, writer,
                   token_requests, cross_hit, req_no, cached, resource_requests>>

\* a call of an operation other than those of FeaturesClient
StartCall(p, k, verb, u) == BeginCall(p, k, verb, u) /\ UNCHANGED pureVars

\* a task calls get_token on the OAuth2Client clone of domain client k
CallGetToken(p, k) == StartCall(p, k, "none", <<>>)

\* get_token returns r to its caller, a client operation or the task itself;
\* the call's locals are dropped
Return(p, r) ==
    /\ pc' = [pc EXCEPT ![p] = IF op[p] = "none" THEN "returned" ELSE "have_credential"]
    /\ steps' = [steps EXCEPT ![p] = IF op[p] = "none" THEN @ ELSE Append(@, "credential")]
    /\ result' = [result EXCEPT ![p] = r]
    /\ via' = [via EXCEPT ![p] = IF op[p] = "none" THEN "features" ELSE @]
    /\ req_no' = [req_no EXCEPT ![p] = 0]
    /\ cached' = [cached EXCEPT ![p] = EmptyCache]

\* get_token in sandbox mode (auth.rs 67-70): the key, or NoToken
SandboxToken(c) ==
    IF c.api_key = {} THEN Err("NoToken", "")
    ELSE Ok(CHOOSE k \in c.api_key : TRUE)

\* get_token without its sandbox early return: the cache path is entered
GetTokenSandboxIgnored(p) ==
    /\ pc[p] = "get_token"
    /\ config.sandbox
    /\ CanRead(readers, writer)
    /\ readers' = readers \cup {p}
    /\ pc' = [pc EXCEPT ![p] = "read_locked"]
    /\ UNCHANGED <<config, auth_client, now, token_cache, writer, token_requests,
                   calls, overlap, cross_hit, via, req_no, response, cached, result,
                   steps, clientVars, pureVars>>

\* get_token with config.sandbox set (auth.rs 67-70)
GetTokenSandbox(p) ==
    /\ pc[p] = "get_token"
    /\ config.sandbox
    /\ Return(p, SandboxToken(config))
    /\ UNCHANGED <<config, auth_client, now, token_cache, readers, writer, token_requests,
                   calls, overlap, cross_hit, response, clientVars, pureVars>>

\* get_token takes the read lock (auth.rs 74)
AcquireRead(p) ==
    /\ pc[p] = "get_token"
    /\ ~config.sandbox
    /\ CanRead(readers, writer)
    /\ readers' = readers \cup {p}
    /\ pc' = [pc EXCEPT ![p] = "read_locked"]
    /\ UNCHANGED <<config, auth_client, now, token_cache, writer, token_requests,
                   calls, overlap, cross_hit, via, req_no, response, cached, result,
                   steps, clientVars, pureVars>>

\* a cache check whose negation of is_expired was dropped
CacheHitNegationDropped(c, clock, buffer) == c.some /\ is_expired(c, clock, buffer)

\* the cache check's verdict (auth.rs 75-76): a credential that is not expired
CacheHit(c, clock, buffer) == c.some /\ ~is_expired(c, clock, buffer)

\* what fetch_token does before it sends (auth.rs 93-100): the error it
\* returns or the panic it dies of, or NoResult when the request goes out
FetchPrecheck(c) ==
    IF token_url(c).panic THEN Panic("tenant or region required in OAuth2 mode")
    ELSE IF token_url(c).url = {} THEN Err("TokenParse", "No token URL in sandbox mode")
    ELSE IF c.client_id = {} THEN Err("TokenParse", "Missing client_id")
    ELSE IF c.client_secret = {} THEN Err("TokenParse", "Missing client_secret")
    ELSE NoResult

\* a get_token whose read guard lives on into fetch_token
CheckCacheHoldingGuard(p) ==
    /\ pc[p] = "read_locked"
    /\ LET c == token_cache[CellOf(p)] IN
         IF CacheHit(c, now, token_buffer(config))
         THEN /\ Return(p, Ok(c.access_token))
              /\ readers' = readers \ {p}
              /\ cross_hit' = (cross_hit \/ c.from.client # via[p])
              /\ UNCHANGED token_requests
         ELSE IF FetchPrecheck(config) # NoResult
         THEN /\ Return(p, FetchPrecheck(config))
              /\ readers' = readers \ {p}
              /\ UNCHANGED <<token_requests, cross_hit>>
         ELSE /\ token_requests' = token_requests + 1
              /\ req_no' = [req_no EXCEPT ![p] = token_requests + 1]
              /\ pc' = [pc EXCEPT ![p] = "await_token"]
              /\ UNCHANGED <<readers, result, via, cached, cross_hit, steps>>
    /\ UNCHANGED <<config, auth_client, now, token_cache, writer,
                   calls, overlap, response, clientVars, pureVars>>

\* get_token reads the cache under the read lock and drops the guard
\* (auth.rs 75-80): a hit returns the cached token; on a miss fetch_token
\* runs up to the request it sends (auth.rs 83, 92-116)
CheckCache(p) ==
    /\ pc[p] = "read_locked"
    /\ readers' = readers \ {p}
    /\ LET c == token_cache[CellOf(p)] IN
         IF CacheHit(c, now, token_buffer(config))
         THEN /\ Return(p, Ok(c.access_token))
              /\ cross_hit' = (cross_hit \/ c.from.client # via[p])
              /\ UNCHANGED token_requests
         ELSE IF FetchPrecheck(config) # NoResult
         THEN /\ Return(p, FetchPrecheck(config))
              /\ UNCHANGED <<token_requests, cross_hit>>
         ELSE /\ token_requests' = token_requests + 1
              /\ req_no' = [req_no EXCEPT ![p] = token_requests + 1]
              /\ pc' = [pc EXCEPT ![p] = "await_token"]
              /\ UNCHANGED <<result, via, cached, cross_hit, steps>>
    /\ UNCHANGED <<config, auth_client, now, token_cache, writer,
                   calls, overlap, response, clientVars, pureVars>>

\* what the token endpoint may answer to request number n
TokenEndpointResponses(n) ==
    {TransportFailure}
    \cup { HttpResponse(st, ErrorJsonBody) : st \in TokenStatuses \ {200} }
    \cup { HttpResponse(200, b) :
             b \in {TextBody, TokenJsonNoType(n, 1)}
                   \cup { TokenJson(n, l) : l \in Lifetimes } }

\* a reading of the response that never looks at the status
ClassifyWithoutStatusCheck(r) ==
    IF r.transport_error THEN Err("Request", "")
    ELSE IF ParseTokenResponse(r.body) = {}
         THEN Err("TokenParse", "Failed to parse token response")
    ELSE NoResult

\* fetch_token's reading of a response (auth.rs 116-129): the error it
\* returns, or NoResult when the body parsed as a TokenResponse
ClassifyTokenResponse(r) ==
    IF r.transport_error THEN Err("Request", "")
    ELSE IF ~is_success(r.status) THEN ErrStatus("TokenRequestFailed", r.status, r.body)
    ELSE IF ParseTokenResponse(r.body) = {}
         THEN Err("TokenParse", "Failed to parse token response")
    ELSE NoResult

\* the CachedToken fetch_token builds (auth.rs 131-145)
NewCachedToken(tr, clock, buffer, client) ==
    CacheCell(TRUE, tr.access_token, ExpiresAt(clock, tr.expires_in, buffer),
              Origin(tr.access_token, clock, tr.expires_in, client))

\* a failed fetch that invalidates the cache
CacheClearedAfterFailure(cell) == EmptyCache

\* what a failed fetch leaves in the cache (auth.rs 116-129: it returns
\* before the cache is touched)
CacheAfterFailure(cell) == cell

\* the token endpoint answers (auth.rs 116-145): an error is returned, a
\* parsed token is stamped with its expiry
ReceiveTokenResponse(p) ==
    /\ pc[p] = "await_token"
    /\ \E r \in TokenEndpointResponses(req_no[p]) :
         IF ClassifyTokenResponse(r) # NoResult
         THEN /\ Return(p, ClassifyTokenResponse(r))
              /\ response' = [response EXCEPT ![p] = r]
              /\ token_cache' = [token_cache EXCEPT ![CellOf(p)] = CacheAfterFailure(@)]
         ELSE /\ cached' = [cached EXCEPT ![p] =
                    NewCachedToken(CHOOSE tr \in ParseTokenResponse(r.body) : TRUE,
                                   now, token_buffer(config), via[p])]
              /\ pc' = [pc EXCEPT ![p] = "write_wait"]
              /\ UNCHANGED <<result, token_cache, via, req_no, response, steps>>
    /\ UNCHANGED <<config, auth_client, now, readers, writer, token_requests,
                   calls, overlap, cross_hit, clientVars, pureVars>>

\* fetch_token takes the write lock and starts the assignment (auth.rs
\* 148-149): the discriminant and the token are in memory, the expiry is not
AcquireWrite(p) ==
    /\ pc[p] = "write_wait"
    /\ CanWrite(readers, writer)
    /\ writer' = {p}
    /\ token_cache' = [token_cache EXCEPT ![CellOf(p)] =
                         [@ EXCEPT !.some = TRUE, !.access_token = cached[p].access_token]]
    /\ pc' = [pc EXCEPT ![p] = "writing"]
    /\ UNCHANGED <<config, auth_client, now, readers, token_requests,
                   calls, overlap, cross_hit, via, req_no, response, cached, result,
                   steps, clientVars, pureVars>>

\* a store that keeps a credential that is already there
StoredCellFirstWins(old, new) ==
    IF old.from # NoOrigin
    THEN CacheCell(TRUE, old.from.token, old.expires_at, old.from)
    ELSE new

\* *cache = Some(cached) (auth.rs 149): the old value is replaced wholesale
StoredCell(old, new) == new

\* fetch_token completes the assignment, drops the guard and returns the
\* token of its own response (auth.rs 149-152)
StoreAndReturn(p) ==
    /\ pc[p] = "writing"
    /\ token_cache' = [token_cache EXCEPT ![CellOf(p)] = StoredCell(@, cached[p])]
    /\ writer' = {}
    /\ Return(p, Ok(cached[p].access_token))
    /\ UNCHANGED <<config, auth_client, now, readers, token_requests,
                   calls, overlap, cross_hit, response, clientVars, pureVars>>

\* the wall clock advances
Tick ==
    /\ now < MaxTime
    /\ now' = now + 1
    /\ UNCHANGED <<config, auth_client, token_cache, readers, writer, token_requests,
                   calls, overlap, cross_hit, pc, via, req_no, response, cached, result,
                   steps, clientVars, pureVars>>

\* a task runs a generic client operation of domain client k: the public
\* operation assembles the URL and calls execute_get/post/patch/delete
\* (odata.rs 239-290), which calls get_token first (odata.rs 298, 322, 348, 370)
CallOperation(p, k, verb) ==
    StartCall(p, k, verb, OperationUrl(odata_client[k].base_url, verb, "/Features", "abc-123"))

\* a task runs get_task or delete_task of the tasks client k, which
\* assembles the URL and calls TasksClient::get or ::delete (tasks.rs
\* 205-208, 228-231), which calls get_token first (tasks.rs 276, 366)
CallTasksOperation(p, k, verb) ==
    StartCall(p, k, verb, TaskUrl(rest_client[k].base_url, "t-1"))

\* execute_* after get_token returned (odata.rs 298-307): a failure is
\* returned as ApiError::Auth, a token goes out in the auth header of the request
SendRequest(p) ==
    /\ pc[p] = "have_credential"
    /\ IF TokenOrReturn(result[p]) = {}
       THEN /\ api_result' = [api_result EXCEPT ![p] = ApiAuthFailure(result[p])]
            /\ pc' = [pc EXCEPT ![p] = "returned"]
            /\ UNCHANGED <<request, resource_requests, steps>>
       ELSE /\ request' = [request EXCEPT ![p] =
                  Request(op[p], url[p],
                          IF via[p] \in RestClients
                          THEN tasks_auth_header(rest_client[via[p]].is_sandbox,
                                                 The(TokenOrReturn(result[p])))
                          ELSE auth_header(odata_client[via[p]].is_sandbox,
                                           The(TokenOrReturn(result[p]))))]
            /\ resource_requests' = resource_requests + 1
            /\ steps' = [steps EXCEPT ![p] = Append(@, "request")]
            /\ pc' = [pc EXCEPT ![p] = "await_http"]
            /\ UNCHANGED api_result
    /\ UNCHANGED <<config, auth_client, odata_client, rest_client, now, token_cache, readers, writer, token_requests,
                   calls, overlap, cross_hit, via, req_no, response, cached, result,
                   op, url, http, pureVars>>

\* a client that sends the request again after a transport failure
ReceiveHttpResponseRetrying(p) ==
    /\ pc[p] = "await_http"
    /\ \E r \in ResourceResponses :
         /\ http' = [http EXCEPT ![p] = r]
         /\ api_result' = [api_result EXCEPT ![p] =
                IF r.transport_error THEN NoApiResult ELSE Interpret(via[p], op[p], r)]
         /\ steps' = [steps EXCEPT ![p] =
                IF r.transport_error THEN <<"url", "credential">> ELSE Append(@, "response")]
         /\ pc' = [pc EXCEPT ![p] =
                IF r.transport_error THEN "have_credential" ELSE "returned"]
    /\ UNCHANGED <<config, auth_client, odata_client, rest_client, now, token_cache, readers, writer, token_requests,
                   calls, overlap, cross_hit, via, req_no, response, cached, result,
                   op, url, request, resource_requests, pureVars>>

\* the response arrives and is interpreted (odata.rs 307-309, 379-387,
\* 390-424; tasks.rs 279-293, 369-382)
ReceiveHttpResponse(p) ==
    /\ pc[p] = "await_http"
    /\ \E r \in ResourceResponses :
         /\ http' = [http EXCEPT ![p] = r]
         /\ api_result' = [api_result EXCEPT ![p] = Interpret(via[p], op[p], r)]
    /\ steps' = [steps EXCEPT ![p] = Append(@, "response")]
    /\ pc' = [pc EXCEPT ![p] = "returned"]
    /\ UNCHANGED <<config, auth_client, odata_client, rest_client, now, token_cache, readers, writer, token_requests,
                   calls, overlap, cross_hit, via, req_no, response, cached, result,
                   op, url, request, resource_requests, pureVars>>

\* get_feature (features.rs 122-126): get_entity_by_uuid on /Features
CallGetFeature(p, uuid) ==
    /\ BeginCall(p, "features", "GET",
                 OperationUrl(odata_client["features"].base_url, "GET", "/Features", uuid))
    /\ feature_call' = [feature_call EXCEPT ![p] = FeatureCall("get_feature", "entity", <<>>, NoApiResult)]
    /\ UNCHANGED <<builderVars, normalizerVars>>

\* get_feature_with_expand (features.rs 180-188): get_entity_with_expand on
\* /Features
CallGetFeatureWithExpand(p, uuid, relations) ==
    /\ BeginCall(p, "features", "GET",
                 get_entity_with_expand_url(odata_client["features"].base_url,
                                            "/Features", uuid, relations))
    /\ feature_call' = [feature_call EXCEPT ![p] =
           FeatureCall("get_feature_with_expand", "entity", relations, NoApiResult)]
    /\ UNCHANGED <<builderVars, normalizerVars>>

\* get_feature_by_display_id_with_expand up to its first await: through
\* get_feature_by_display_id and list_features it calls get_collection
\* with the displayId query (features.rs 142-145, 170)
CallGetFeatureByDisplayIdWithExpand(p, display_id, relations) ==
    /\ BeginCall(p, "features", "GET",
                 get_collection_url(odata_client["features"].base_url, "/Features",
                                    DisplayIdQuery(display_id)))
    /\ feature_call' = [feature_call EXCEPT ![p] =
           FeatureCall("get_feature_by_display_id_with_expand", "list", relations, NoApiResult)]
    /\ UNCHANGED <<builderVars, normalizerVars>>

\* the answer to the list request arrives: get_feature_by_display_id and
\* then get_feature_by_display_id_with_expand run on (features.rs
\* 145-176), to a return or into get_feature_with_expand, whose
\* execute_get starts with get_token
ReceiveListResponse(p) ==
    /\ pc[p] = "await_http"
    /\ feature_call[p].stage = "list"
    /\ \E r \in FeatureResponses :
         LET listed == execute_get_response("ODataCollection", r)
             next == UuidOrReturn(get_feature_by_display_id(listed))
         IN /\ http' = [http EXCEPT ![p] = r]
            /\ feature_call' = [feature_call EXCEPT ![p].listed = listed,
                                   ![p].stage = IF next.uuid = {} THEN "list" ELSE "expand"]
            /\ IF next.uuid = {}
               THEN /\ api_result' = [api_result EXCEPT ![p] = next.result]
                    /\ steps' = [steps EXCEPT ![p] = Append(@, "response")]
                    /\ pc' = [pc EXCEPT ![p] = "returned"]
                    /\ UNCHANGED <<url, result, response>>
               ELSE /\ url' = [url EXCEPT ![p] =
                          get_entity_with_expand_url(odata_client["features"].base_url,
                              "/Features", The(next.uuid), feature_call[p].expand)]
                    /\ steps' = [steps EXCEPT ![p] = Append(Append(@, "response"), "url")]
                    /\ pc' = [pc EXCEPT ![p] = "get_token"]
                    /\ result' = [result EXCEPT ![p] = NoResult]
                    /\ response' = [response EXCEPT ![p] = NoResponse]
                    /\ UNCHANGED api_result
    /\ UNCHANGED <<config, auth_client, odata_client, rest_client, now, token_cache, readers,
                   writer, token_requests, calls, overlap, cross_hit, via, req_no, cached,
                   op, request, resource_requests, builderVars, normalizerVars>>

\* the answer to a request for one feature arrives (odata.rs 307-309,
\* 390-424): get_feature reads a Feature, the expand operations a Value
ReceiveFeatureResponse(p) ==
    /\ pc[p] = "await_http"
    /\ feature_call[p].stage \in {"entity", "expand"}
    /\ \E r \in FeatureResponses :
         /\ http' = [http EXCEPT ![p] = r]
         /\ api_result' = [api_result EXCEPT ![p] =
                execute_get_response(IF feature_call[p].fn = "get_feature" THEN "Feature" ELSE "Value", r)]
    /\ steps' = [steps EXCEPT ![p] = Append(@, "response")]
    /\ pc' = [pc EXCEPT ![p] = "returned"]
    /\ UNCHANGED <<config, auth_client, odata_client, rest_client, now, token_cache, readers, writer, token_requests,
                   calls, overlap, cross_hit, via, req_no, response, cached, result,
                   op, url, request, resource_requests, pureVars>>

Next ==
    \/ \E p \in Callers, k \in Clients : CallGetToken(p, k)
    \/ \E p \in Callers : GetTokenSandbox(p)
    \/ \E p \in Callers : AcquireRead(p)
    \/ \E p \in Callers : CheckCache(p)
    \/ \E p \in Callers : ReceiveTokenResponse(p)
    \/ \E p \in Callers : AcquireWrite(p)
    \/ \E p \in Callers : StoreAndReturn(p)
    \/ Tick

Spec == Init /\ [][Next]_vars

\* get_token calls under scheduling: the runtime runs every task that can
\* take a step (WF), the RwLock of tokio queues its waiters fairly, so a
\* task that can take the lock again and again does take it (SF), and a
\* token request that was sent is answered.  One OAuth2 configuration and
\* one static-key configuration, the clock held still.
LiveConfig == MkConfig(FALSE, {}, {"acme"}, {"eu10"}, {"id"}, {"secret"}, 1)

InitLive == Init /\ config \in {LiveConfig, MkConfig(TRUE, {ApiKeyValue}, {}, {}, {}, {}, 1)}

NextLive ==
    \/ \E p \in Callers, k \in Clients : CallGetToken(p, k)
    \/ \E p \in Callers : GetTokenSandbox(p)
    \/ \E p \in Callers : AcquireRead(p)
    \/ \E p \in Callers : CheckCache(p)
    \/ \E p \in Callers : ReceiveTokenResponse(p)
    \/ \E p \in Callers : AcquireWrite(p)
    \/ \E p \in Callers : StoreAndReturn(p)

Scheduling ==
    \A p \in Callers :
        /\ WF_vars(GetTokenSandbox(p))
        /\ SF_vars(AcquireRead(p))
        /\ WF_vars(CheckCache(p))
        /\ WF_vars(ReceiveTokenResponse(p))
        /\ SF_vars(AcquireWrite(p))
        /\ WF_vars(StoreAndReturn(p))

SpecLive == InitLive /\ [][NextLive]_vars /\ Scheduling

\* the generic client: tasks run client operations under a configuration
\* main accepts (Config::load validates) or a sandbox one.  The clock is
\* held still here: with now = 0 and a buffer of 1 a token of lifetime 1 is
\* stale on arrival and one of lifetime 3 is valid, so operations meet both
\* the cache hit and the refetch.
InitClient ==
    /\ Init
    /\ config.sandbox \/ Validate(config)
    /\ config.token_refresh_buffer_seconds = 1

NextClient ==
    \/ \E p \in OpCallers, k \in ODataClients, verb \in Verbs : CallOperation(p, k, verb)
    \/ \E p \in Callers : GetTokenSandbox(p)
    \/ \E p \in Callers : AcquireRead(p)
    \/ \E p \in Callers : CheckCache(p)
    \/ \E p \in Callers : ReceiveTokenResponse(p)
    \/ \E p \in Callers : AcquireWrite(p)
    \/ \E p \in Callers : StoreAndReturn(p)
    \/ \E p \in Callers : SendRequest(p)
    \/ \E p \in Callers : ReceiveHttpResponse(p)

SpecClient == InitClient /\ [][NextClient]_vars

\* the domain clients side by side: an OData-based one and a REST-based
\* one, each with the operation that reads an entity and the one that
\* deletes it (the two response interpretations either client has)
DomainVerbs == {"GET", "DELETE"}

InitDomain == InitClient

NextDomain ==
    \/ \E p \in OpCallers, k \in ODataClients, verb \in DomainVerbs : CallOperation(p, k, verb)
    \/ \E p \in OpCallers, k \in RestClients, verb \in DomainVerbs :
          CallTasksOperation(p, k, verb)
    \/ \E p \in Callers : GetTokenSandbox(p)
    \/ \E p \in Callers : AcquireRead(p)
    \/ \E p \in Callers : CheckCache(p)
    \/ \E p \in Callers : ReceiveTokenResponse(p)
    \/ \E p \in Callers : AcquireWrite(p)
    \/ \E p \in Callers : StoreAndReturn(p)
    \/ \E p \in Callers : SendRequest(p)
    \/ \E p \in Callers : ReceiveHttpResponse(p)

SpecDomain == InitDomain /\ [][NextDomain]_vars

\* the features client: tasks run get_feature, get_feature_with_expand and
\* get_feature_by_display_id_with_expand, under an OAuth2 configuration
\* main accepts and under a sandbox one, the clock held still
InitFeatures == Init /\ config \in {LiveConfig, MkConfig(TRUE, {ApiKeyValue}, {}, {}, {}, {}, 1)}

\* the operations of FeaturesClient are followed one call after the other;
\* calls that overlap meet in get_token alone, which Spec and SpecLive cover
FeatureTasks == {1}

NextFeatures ==
    \/ \E p \in FeatureTasks, uuid \in FeatureUuids : CallGetFeature(p, uuid)
    \/ \E p \in FeatureTasks, uuid \in FeatureUuids, relations \in ExpandArgs :
          CallGetFeatureWithExpand(p, uuid, relations)
    \/ \E p \in FeatureTasks, display_id \in DisplayIds, relations \in ExpandArgs :
          CallGetFeatureByDisplayIdWithExpand(p, display_id, relations)
    \/ \E p \in Callers : GetTokenSandbox(p)
    \/ \E p \in Callers : AcquireRead(p)
    \/ \E p \in Callers : CheckCache(p)
    \/ \E p \in Callers : ReceiveTokenResponse(p)
    \/ \E p \in Callers : AcquireWrite(p)
    \/ \E p \in Callers : StoreAndReturn(p)
    \/ \E p \in Callers : SendRequest(p)
    \/ \E p \in Callers : ReceiveListResponse(p)
    \/ \E p \in Callers : ReceiveFeatureResponse(p)

SpecFeatures == InitFeatures /\ [][NextFeatures]_vars

(* ----------------------- the query builder alone ---------------------- *)
programVars == <<config, auth_client, odata_client, rest_client, now, token_cache, readers, writer, token_requests,
                 calls, overlap, cross_hit, pc, via, req_no, response, cached, result,
                 op, url, steps, request, http, api_result, resource_requests, feature_call>>

\* the configuration of the runs in which the clients stay idle
IdleConfig == MkConfig(TRUE, {ApiKeyValue}, {}, {}, {}, {}, 1)

\* a setter is called on the builder; the string made of the old builder is gone
CallSetter(c) ==
    /\ Len(setters) < MaxSetters
    /\ query' = Apply(query, c)
    /\ setters' = Append(setters, c)
    /\ serialized' = <<>>
    /\ UNCHANGED <<copy, copy_serialized, normalizerVars, programVars>>

\* to_query_string(&self) on the builder
ToQueryString ==
    /\ Len(serialized) < MaxSerializations
    /\ serialized' = Append(serialized, to_query_string(query))
    /\ query' = BorrowedSelf(query)
    /\ UNCHANGED <<setters, copy, copy_serialized, normalizerVars, programVars>>

\* query.clone()
Clone ==
    /\ copy' = {CloneQuery(query)}
    /\ copy_serialized' = {}
    /\ UNCHANGED <<query, setters, serialized, normalizerVars, programVars>>

\* to_query_string(&self) on the clone
CloneToQueryString ==
    /\ copy # {}
    /\ copy_serialized' = {to_query_string(The(copy))}
    /\ copy' = {BorrowedSelf(The(copy))}
    /\ UNCHANGED <<query, setters, serialized, normalizerVars, programVars>>

InitQuery == Init /\ config = IdleConfig

NextQuery ==
    \/ \E c \in SetterCalls : CallSetter(c)
    \/ ToQueryString
    \/ Clone
    \/ CloneToQueryString

SpecQuery == InitQuery /\ [][NextQuery]_vars

(* ---------------------- the error normalizer alone -------------------- *)
\* parse_error_response is handed a status and a body
InitNormalize ==
    /\ MainInit /\ config = IdleConfig
    /\ BuilderInit
    /\ err_status \in ErrorStatuses
    /\ err_body \in ErrorBodies
    /\ err_result = NoApiResult

Normalize ==
    /\ err_result = NoApiResult
    /\ err_result' = parse_error_response(err_status, err_body)
    /\ UNCHANGED <<err_status, err_body, builderVars, programVars>>

NextNormalize == Normalize

SpecNormalize == InitNormalize /\ [][NextNormalize]_vars

(* ------------------------------- claims ------------------------------- *)
\* the refresh buffer of the configuration, in seconds
BufferSeconds == config.token_refresh_buffer_seconds

\* caller p takes a step
Steps(p) == pc'[p] # pc[p]

Fetching == {"await_token", "write_wait", "writing"}

(* C1 *)
\* p holds the read lock in token mode and the cache holds a credential
\* with now + refresh_buffer < expires_at
C1_ValidAtRead(p) ==
    /\ ~config.sandbox
    /\ pc[p] = "read_locked"
    /\ token_cache[CellOf(p)].some
    /\ now + BufferSeconds < token_cache[CellOf(p)].expires_at

C1_HitStep(p) ==
    (C1_ValidAtRead(p) /\ Steps(p)) =>
        /\ pc'[p] = "returned"
        /\ result'[p] = Ok(token_cache[CellOf(p)].access_token)
        /\ token_requests' = token_requests

C1_SecondCall(p) ==
    (C1_ValidAtRead(p) /\ Steps(p) /\ calls = 2 /\ ~overlap) =>
        /\ token_requests' = 1
        /\ \A q \in Callers \ {p} : pc[q] = "returned" => result[q] = result'[p]

\* C1: in token mode, a get_token call that reads a cached credential with
\* now + refresh_buffer < expires_at returns exactly that cached token and
\* issues no token request; and when the second of two successive calls
\* that started from an empty cache reads the first call's credential so,
\* one token request was issued in total and both calls return the same token.
C1_CacheHit == [][\A p \in Callers : C1_HitStep(p) /\ C1_SecondCall(p)]_vars

\* two successive calls by two callers, one token request, the same token
C1_Witness ==
    /\ ~config.sandbox /\ calls = 2 /\ ~overlap /\ token_requests = 1
    /\ \E p, q \in Callers :
         /\ p # q
         /\ pc[p] = "returned" /\ pc[q] = "returned"
         /\ result[p] = Ok(1) /\ result[q] = Ok(1)

(* C2 *)
\* p holds the read lock in token mode and the cache is empty or holds a
\* credential with now + buffer >= expires_at
C2_MissAtRead(p) ==
    /\ ~config.sandbox
    /\ pc[p] = "read_locked"
    /\ \/ ~token_cache[CellOf(p)].some
       \/ now + BufferSeconds >= token_cache[CellOf(p)].expires_at

C2_MissStep(p) ==
    (C2_MissAtRead(p) /\ Steps(p)) =>
        /\ result'[p].kind # "Ok"
        /\ Validate(config) =>
              /\ pc'[p] = "await_token"
              /\ token_requests' = token_requests + 1
              /\ req_no'[p] = token_requests + 1

C2_FetchReturn(p) ==
    (pc[p] \in Fetching /\ pc'[p] \notin Fetching) =>
        \/ result'[p].kind = "Err"
        \/ result'[p] = Ok(req_no[p])

\* the token a fetching caller is waiting for is not the one in the cache
C2_NotCached ==
    \A p \in Callers :
        pc[p] \in {"await_token", "write_wait"} =>
            token_cache[CellOf(p)].access_token # req_no[p]

\* C2: in token mode, a get_token call that reads an empty cache or a
\* credential with now + refresh_buffer >= expires_at does not return the
\* cached token: under a configuration that Config::load accepts it issues
\* a token request, and under any configuration what it returns is an error
\* or the access token of the response to its own request, which is not
\* the cached one.
C2_StaleRefetch ==
    /\ [][\A p \in Callers : C2_MissStep(p) /\ C2_FetchReturn(p)]_vars
    /\ []C2_NotCached

\* the second of two successive calls found the first credential stale and
\* returned the token of its own request
C2_Witness ==
    /\ ~config.sandbox /\ calls = 2 /\ ~overlap /\ token_requests = 2
    /\ token_cache[RootRef].access_token = 2
    /\ \E p, q \in Callers :
         /\ p # q
         /\ pc[p] = "returned" /\ result[p] = Ok(1)
         /\ pc[q] = "returned" /\ result[q] = Ok(2)

(* C3 *)
C3_FailedReturn(p) ==
    (pc[p] # "returned" /\ pc'[p] = "returned" /\ result'[p].kind # "Ok") =>
        /\ token_cache' = token_cache
        /\ pc[p] \notin {"write_wait", "writing"}
        /\ pc[p] = "await_token" =>
              /\ result'[p].kind = "Err"
              /\ result'[p].err \in {"Request", "TokenRequestFailed", "TokenParse"}

C3_OnlySuccessWrites ==
    token_cache' # token_cache =>
        \E p \in Callers :
            /\ pc[p] \in {"write_wait", "writing"}
            /\ pc'[p] \in {"writing", "returned"}
            /\ pc'[p] = "returned" => result'[p].kind = "Ok"

\* C3: a get_token call that returns an error (the token request failed in
\* transport, with a non-2xx status or with an unparsable 2xx body) has
\* not changed the token cache: the step that returns the error leaves it
\* as it is, and the cache is only ever changed by a call that then
\* returns a token.
C3_FailureKeepsCache ==
    [][(\A p \in Callers : C3_FailedReturn(p)) /\ C3_OnlySuccessWrites]_vars

\* a fetch failed while the stale credential of an earlier call is still cached
C3_Witness ==
    /\ token_cache[RootRef].some
    /\ token_cache[RootRef].access_token = 1
    /\ \E p \in Callers :
         /\ pc[p] = "returned"
         /\ result[p].kind = "Err"
         /\ result[p].err = "TokenRequestFailed"

(* C4 *)
\* a cell that is absent, or whose token and expiry come from one response
WholeCell(c) ==
    IF c.some THEN c.from.token = c.access_token ELSE c = EmptyCache

\* C4: under any interleaving, the value a reader finds in the token cache
\* while it holds the read lock is absent or a complete credential whose
\* access_token and expires_at come from one and the same token response.
C4_ReadersSeeWhole ==
    \A p \in Callers : pc[p] = "read_locked" => WholeCell(token_cache[CellOf(p)])

\* a reader that overlapped with a fetching call reads a stored credential
C4_Witness ==
    /\ overlap
    /\ \E p \in Callers : pc[p] = "read_locked" /\ token_cache[CellOf(p)].some

(* C5 *)
\* every fetching caller has a token request of its own
C5_OwnRequests ==
    \A p \in Callers :
        pc[p] \in Fetching =>
            /\ req_no[p] \in 1..token_requests
            /\ \A q \in Callers \ {p} : pc[q] \in Fetching => req_no[q] # req_no[p]

\* after every caller fetched once and returned, the cache holds one of the
\* fetched credentials, whole, and the callers hold different tokens
C5_AllDone ==
    ( /\ calls = NumCallers /\ token_requests = NumCallers
      /\ \A p \in Callers : pc[p] = "returned" /\ result[p].kind = "Ok" ) =>
        /\ token_cache[RootRef].some
        /\ WholeCell(token_cache[RootRef])
        /\ \E p \in Callers : result[p].token = token_cache[RootRef].access_token
        /\ \A p, q \in Callers : p # q => result[p].token # result[q].token

\* the store replaces the cached credential by the writer's own and the
\* writer returns the token of its own request
C5_LastWriterWins(p) ==
    (pc[p] = "writing" /\ Steps(p)) =>
        /\ token_cache'[CellOf(p)] = cached[p]
        /\ cached[p].access_token = req_no[p]
        /\ result'[p] = Ok(req_no[p])

\* C5: token refreshes are not coalesced: every caller that missed the
\* cache has a token request of its own in flight; each store replaces the
\* cached credential by the writer's, so the last writer's stays; and once
\* all N callers fetched and returned, the cache holds one of the N
\* credentials and each caller returned the token of its own fetch.
C5_NoCoalescing ==
    /\ [](C5_OwnRequests /\ C5_AllDone)
    /\ [][\A p \in Callers : C5_LastWriterWins(p)]_vars

\* every caller fetched for itself and returned its own token, and the
\* credential left in the cache is the one of the first request, stored last
C5_Witness ==
    /\ calls = NumCallers /\ token_requests = NumCallers
    /\ \A p \in Callers : pc[p] = "returned" /\ result[p].kind = "Ok"
    /\ \A p, q \in Callers : p # q => result[p].token # result[q].token
    /\ token_cache[RootRef].access_token = 1
    /\ token_cache[RootRef].from.token = 1

(* C6 *)
C6_OneCell ==
    \A k1, k2 \in Clients : auth_client[k1].token_cache = auth_client[k2].token_cache

\* some domain client's cache holds a credential that is still valid
C6_SomeClientValid ==
    \E k \in Clients :
        /\ token_cache[auth_client[k].token_cache].some
        /\ now + BufferSeconds < token_cache[auth_client[k].token_cache].expires_at

C6_SharedHit(p) ==
    (~config.sandbox /\ pc[p] = "read_locked" /\ Steps(p) /\ C6_SomeClientValid) =>
        /\ pc'[p] = "returned"
        /\ result'[p].kind = "Ok"
        /\ token_requests' = token_requests

\* C6: every domain client's OAuth2Client clone refers to the same cache
\* cell, and a get_token call through any domain client, made while the
\* credential fetched through any domain client is valid, is a cache hit
\* that issues no token request.
C6_SharedCache == []C6_OneCell /\ [][\A p \in Callers : C6_SharedHit(p)]_vars

\* a hit through one domain client on the credential fetched through another
C6_Witness == cross_hit /\ token_requests = 1 /\ calls = 2

(* C7 *)
\* C7: in sandbox mode no token request is ever issued, the token cache is
\* never read or written, and every get_token call returns the configured
\* api_key, or NoToken when none is configured, whatever calls preceded it.
C7_SandboxBypass ==
    config.sandbox =>
        /\ token_requests = 0
        /\ readers = {} /\ writer = {}
        /\ \A r \in CacheRefs : token_cache[r] = EmptyCache
        /\ \A p \in Callers :
             /\ pc[p] \in {"idle", "get_token", "returned"}
             /\ pc[p] = "returned" =>
                  result[p] = (IF config.api_key = {} THEN Err("NoToken", "")
                               ELSE Ok(ApiKeyValue))

\* the second sandbox call returned the key
C7_Witness ==
    /\ config.sandbox /\ calls = 2
    /\ \A p \in Callers : pc[p] = "returned" /\ result[p] = Ok(ApiKeyValue)

(* C8 *)
\* C8: a failed token fetch returns Request for a transport failure,
\* TokenRequestFailed with the status and the raw body for a non-2xx
\* status, and TokenParse (never TokenRequestFailed) for a 2xx response.
C8_ErrorClasses ==
    \A p \in Callers :
        (pc[p] = "returned" /\ response[p] # NoResponse) =>
            /\ result[p].kind = "Err"
            /\ response[p].transport_error => result[p] = Err("Request", "")
            /\ (~response[p].transport_error /\ response[p].status \notin 200..299) =>
                  /\ result[p].err = "TokenRequestFailed"
                  /\ result[p].status = response[p].status
                  /\ result[p].body = response[p].body
            /\ (~response[p].transport_error /\ response[p].status \in 200..299) =>
                  /\ result[p].err = "TokenParse"
                  /\ response[p].body.json => "token_type" \notin response[p].body.fields

\* one fetch failed with a 401 and its body, another with an unparsable 200
C8_Witness ==
    \E p, q \in Callers :
        /\ pc[p] = "returned" /\ pc[q] = "returned"
        /\ result[p].err = "TokenRequestFailed"
        /\ result[p].status = 401 /\ result[p].body = ErrorJsonBody
        /\ result[q].err = "TokenParse" /\ response[q].status = 200

(* C9 *)
\* a credential whose expiry is the clock reading at fetch time plus the
\* server-declared expires_in
UnadjustedExpiry(c) ==
    /\ c.from.expires_in \in Lifetimes
    /\ c.expires_at = c.from.at + c.from.expires_in

\* C9: every credential stored in the cache, and every credential about to
\* be stored, has expires_at = clock at fetch time + expires_in, whatever
\* the refresh buffer of the configuration.
C9_ExpiryUnadjusted ==
    /\ \A r \in CacheRefs :
         (token_cache[r].some /\ \A w \in writer : CellOf(w) # r) =>
             UnadjustedExpiry(token_cache[r])
    /\ \A p \in Callers :
         pc[p] \in {"write_wait", "writing"} => UnadjustedExpiry(cached[p])

\* under a buffer of 2 s a token of 3 s fetched at time 1 is stored with expiry 4
C9_Witness ==
    /\ BufferSeconds = 2 /\ writer = {}
    /\ token_cache[RootRef].some
    /\ token_cache[RootRef].from.at = 1
    /\ token_cache[RootRef].from.expires_in = 3
    /\ token_cache[RootRef].expires_at = 4

(* C10 *)
StepOrder == <<"url", "credential", "request", "response">>

IsPrefix(a, b) == Len(a) <= Len(b) /\ \A i \in 1..Len(a) : a[i] = b[i]

C10_Ordered(p) ==
    op[p] # "none" =>
        /\ IsPrefix(steps[p], StepOrder)
        /\ Len(steps[p]) >= 1 /\ url[p] # <<>>
        /\ request[p] # NoRequest <=> Len(steps[p]) >= 3
        /\ request[p] # NoRequest =>
              /\ result[p].kind = "Ok"
              /\ request[p].url = url[p]
              /\ request[p].method = op[p]
        /\ http[p] # NoHttp => request[p] # NoRequest
        /\ (api_result[p] # NoApiResult /\ api_result[p].cause = NoResult) =>
              Len(steps[p]) = 4
        /\ (pc[p] = "returned" /\ result[p].kind = "Err") =>
              /\ request[p] = NoRequest /\ http[p] = NoHttp
              /\ api_result[p] = ApiAuthFailure(result[p])
              /\ api_result[p].err = "Auth"

C10_NoRequestWithoutCredential(p) ==
    (pc[p] = "have_credential" /\ result[p].kind # "Ok" /\ Steps(p)) =>
        /\ resource_requests' = resource_requests
        /\ pc'[p] = "returned"

\* C10: a generic client operation assembles the URL, then obtains the
\* credential, then issues the resource request, then interprets the
\* response; when get_token fails no resource request is issued and the
\* operation returns the authentication error.
C10_StepOrder ==
    /\ [](\A p \in Callers : C10_Ordered(p))
    /\ [][\A p \in Callers : C10_NoRequestWithoutCredential(p)]_vars

\* an operation whose token fetch failed returned without a resource request
C10_Witness ==
    \E p \in Callers :
        /\ pc[p] = "returned" /\ op[p] \in Verbs
        /\ steps[p] = <<"url", "credential">>
        /\ result[p].err = "TokenRequestFailed"
        /\ api_result[p].err = "Auth"
        /\ resource_requests = 0

(* C11 *)
\* how far into a call a position is
ProgressAt(at) ==
    CASE at = "idle" -> 0
      [] at = "get_token" -> 1
      [] at = "read_locked" -> 2
      [] at = "await_token" -> 3
      [] at = "write_wait" -> 4
      [] at = "writing" -> 5
      [] at = "have_credential" -> 6
      [] at = "await_http" -> 7
      [] at = "returned" -> 8

\* a caller only moves forward, except to start its next operation
C11_NoStepBack(p) ==
    Steps(p) =>
        \/ pc[p] \in {"idle", "returned"} /\ pc'[p] = "get_token"
        \/ ProgressAt(pc'[p]) > ProgressAt(pc[p])

\* requests go out one at a time, at the one place of an operation that sends them
C11_RequestSteps ==
    /\ token_requests' # token_requests =>
          /\ token_requests' = token_requests + 1
          /\ \E p \in Callers : pc[p] = "read_locked" /\ pc'[p] = "await_token"
    /\ resource_requests' # resource_requests =>
          /\ resource_requests' = resource_requests + 1
          /\ \E p \in Callers : pc[p] = "have_credential" /\ pc'[p] = "await_http"

\* what a finished operation returned, by what happened to it
C11_FailureReturned(p) ==
    (pc[p] = "returned" /\ op[p] \in Verbs) =>
        /\ result[p].kind # "Ok" =>
              /\ api_result[p].kind = "Err" /\ api_result[p].err = "Auth"
              /\ api_result[p].cause = result[p]
              /\ request[p] = NoRequest
        /\ http[p].transport_error =>
              api_result[p].kind = "Err" /\ api_result[p].err = "Request"
        /\ (request[p] # NoRequest /\ ~http[p].transport_error
            /\ http[p].status \notin 200..299) =>
              /\ api_result[p].kind = "Err"
              /\ api_result[p].err \in {"ODataError", "HttpError"}
              /\ api_result[p].status = http[p].status
        /\ (request[p] # NoRequest /\ ~http[p].transport_error
            /\ http[p].status \in 200..299 /\ op[p] # "DELETE"
            /\ "value" \notin http[p].body.members) =>
              api_result[p].kind = "Err" /\ api_result[p].err = "JsonParse"
        /\ api_result[p].kind = "Ok" =>
              /\ result[p].kind = "Ok" /\ request[p] # NoRequest
              /\ ~http[p].transport_error /\ http[p].status \in 200..299
        /\ api_result[p].kind \in {"Ok", "Err"}

\* C11: nothing is retried: a caller never goes back to an earlier step of
\* its operation, a token request goes out only at the cache miss and a
\* resource request only once the credential is there, so that at most one
\* of each is issued per operation; and every operation that met a
\* failure (credential, transport, non-2xx status, unparsable 2xx body)
\* returned an error, success being returned only for a 2xx response.
C11_NoRetry ==
    /\ [][(\A p \in Callers : C11_NoStepBack(p)) /\ C11_RequestSteps]_vars
    /\ [](token_requests <= calls /\ resource_requests <= calls)
    /\ [](\A p \in Callers : C11_FailureReturned(p))

\* C11, its last part: every operation that met a failure (credential,
\* transport, non-2xx status, unparsable 2xx body) returned an error value
\* to its caller, and success was returned only for a 2xx response.
C11_EveryFailureReturned ==
    \A p \in Callers : C11_FailureReturned(p)

\* one operation got a 401 and returned it after one token request and one
\* resource request
C11_Witness ==
    /\ calls = 1 /\ token_requests = 1 /\ resource_requests = 1
    /\ \E p \in Callers :
         /\ pc[p] = "returned" /\ op[p] \in Verbs
         /\ http[p].status = 401
         /\ api_result[p].kind = "Err" /\ api_result[p].status = 401

(* C12 *)
\* the body is JSON of the shape {error: {code: string, message: string,
\* details?: [{message: string, ..}]}}, other members allowed
C12_IsEnvelope(b) ==
    /\ b.json
    /\ "error.code" \in b.members /\ "error.message" \in b.members
    /\ "error.details" \in b.members => "error.details[].message" \in b.members

\* C12: for every status and every body (empty, plain text, JSON of any
\* shape) parse_error_response returns an error: the structured protocol
\* error with that status and the body's error.code and error.message
\* exactly when the body parses as the error envelope, and otherwise the
\* generic HTTP error with that status and the raw body unmodified, as for
\* the JSON body {"msg": "oops"}.
C12_Normalizer ==
    err_result # NoApiResult =>
        /\ err_result.kind = "Err"
        /\ err_result.status = err_status
        /\ IF C12_IsEnvelope(err_body)
           THEN /\ err_result.err = "ODataError"
                /\ err_result.code = err_body.code
                /\ err_result.message = err_body.message
                /\ err_result.code # "" /\ err_result.message # ""
           ELSE /\ err_result.err = "HttpError"
                /\ err_result.body = err_body
        /\ err_body.text = "{\"msg\": \"oops\"}" =>
              err_result.err = "HttpError" /\ err_result.body.text = "{\"msg\": \"oops\"}"

\* the normalizer was handed a 500 with the body {"msg": "oops"} and
\* returned the generic error with that body
C12_Witness ==
    /\ err_status = 500 /\ err_body = OtherJson
    /\ err_result.err = "HttpError" /\ err_result.body = OtherJson

(* C13 *)
\* p's get-entity-by-key request is on the wire, in token mode
C13_GetIssued(p) ==
    /\ ~config.sandbox
    /\ op[p] = "GET"
    /\ request[p] # NoRequest

\* the header Authorization: Bearer <token>, the token being the one
\* get_token returned to this operation
C13_BearerHeader(p) ==
    /\ result[p].kind = "Ok"
    /\ request[p].header = <<"Authorization", <<"Bearer ", result[p].token>>>>

\* C13 as claimed: with base URL https://x/Features, endpoint "/Features" and
\* key "abc-123" the GET goes to exactly https://x/Features/abc-123 with the
\* header Authorization: Bearer <token>.
C13_AsClaimed ==
    \A p \in Callers :
        C13_GetIssued(p) =>
            /\ request[p].method = "GET"
            /\ request[p].url = <<"https://x", "/Features", "/", "abc-123">>
            /\ C13_BearerHeader(p)

\* C13: with a generic client in token mode whose base URL is
\* https://x/Features, get-entity-by-key with endpoint "/Features" and key
\* "abc-123" issues a GET to base URL + endpoint + "/" + key, which is
\* https://x/Features/Features/abc-123, with the header Authorization:
\* Bearer <token>, the token being the one the credential manager returned
\* for that call.
C13_GetByKey ==
    \A p \in Callers :
        C13_GetIssued(p) =>
            /\ request[p].method = "GET"
            /\ request[p].url = <<"https://x", "/Features", "/Features", "/", "abc-123">>
            /\ C13_BearerHeader(p)

\* a GET by key went out in token mode with the token of the first token request
C13_Witness ==
    \E p \in Callers :
        /\ C13_GetIssued(p)
        /\ pc[p] = "await_http"
        /\ result[p] = Ok(1)
        /\ request[p].header = <<"Authorization", <<"Bearer ", 1>>>>

\* the strings to_query_string returned for the builder as it is
Returned == {serialized[i] : i \in 1..Len(serialized)}

(* C14 *)
\* the builder holds filter "projectId eq 'abc'", orderby modifiedAt desc
\* and top 50, nothing else, and has been serialized
C14_ListFeaturesQuery ==
    /\ query.filter = {<<"projectId", " ", "eq", " ", "'", "abc", "'">>}
    /\ query.orderby = {<<[field |-> <<"modifiedAt">>, order |-> "Desc"]>>}
    /\ query.top = {50}
    /\ query.select = {} /\ query.expand = {} /\ query.skip = {}
    /\ Returned # {}

\* C14 as claimed: that query serializes to exactly
\* ?$filter=projectId%20eq%20%27abc%27&$orderby=modifiedAt%20desc&$top=50
C14_AsClaimed ==
    C14_ListFeaturesQuery =>
        Returned = {<<"?", "$filter=", "projectId", "%20", "eq", "%20", "%27", "abc", "%27",
                        "&", "$orderby=", "modifiedAt", "%20", "desc",
                        "&", "$top=", "5", "0">>}

\* C14: that query serializes to exactly
\* ?$filter=projectId%20eq%20%27abc%27&$orderby=modifiedAt desc&$top=50:
\* the $filter value is percent-encoded, the space inside the $orderby
\* value is left as it is.
C14_ListFeaturesString ==
    C14_ListFeaturesQuery =>
        Returned = {<<"?", "$filter=", "projectId", "%20", "eq", "%20", "%27", "abc", "%27",
                        "&", "$orderby=", "modifiedAt", " ", "desc",
                        "&", "$top=", "5", "0">>}

\* the query was built in the order build_odata_query calls the setters
\* and then serialized
C14_Witness ==
    /\ C14_ListFeaturesQuery
    /\ Len(setters) = 3
    /\ setters[1].name = "filter" /\ setters[2].name = "orderby" /\ setters[3].name = "top"
    /\ " " \in {The(Returned)[i] : i \in 1..Len(The(Returned))}

(* C15 *)
\* the orders in which n calls can be made
CallOrders(n) ==
    {f \in [1..n -> 1..n] : \A i, j \in 1..n : i # j => f[i] # f[j]}

Reordered(cs, f) == [i \in 1..Len(cs) |-> cs[f[i]]]

\* f keeps the orderby calls of cs in the order they have in cs
KeepsOrderbyOrder(cs, f) ==
    \A i, j \in 1..Len(cs) :
        (i < j /\ cs[f[i]].name = "orderby" /\ cs[f[j]].name = "orderby") => f[i] < f[j]

FacetNames ==
    <<"$filter=", "$select=", "$expand=", "$orderby=", "$top=", "$skip=", "$count=true",
      "$search=">>

IsFacetName(piece) == \E i \in 1..Len(FacetNames) : FacetNames[i] = piece

FacetRank(piece) == CHOOSE i \in 1..Len(FacetNames) : FacetNames[i] = piece

\* the facets of a serialized query come in the fixed order, each at most once
InFacetOrder(text) ==
    LET facets == SelectSeq(text, IsFacetName)
    IN \A i, j \in 1..Len(facets) : i < j => FacetRank(facets[i]) < FacetRank(facets[j])

\* whatever the order of the calls, the string is the same
C15_SameInAnyOrder ==
    \A f \in CallOrders(Len(setters)) :
        KeepsOrderbyOrder(setters, f) =>
            to_query_string(Build(Reordered(setters, f))) = to_query_string(query)

\* each of filter, select, expand, top and skip was called at most once
C15_EachSetterOnce ==
    \A i, j \in 1..Len(setters) :
        (i # j /\ setters[i].name = setters[j].name) => setters[i].name = "orderby"

\* C15 as claimed: for any permutation of the calls made (the orderby calls
\* kept in their relative order) to_query_string yields the same string, and
\* the facets appear in the fixed order.
C15_AsClaimed ==
    /\ C15_SameInAnyOrder
    /\ InFacetOrder(to_query_string(query))

\* C15: when each of filter, select, expand, top and skip is called at most
\* once, the serialized string is the same for every permutation of the
\* calls that keeps the orderby calls in their relative order; and in every
\* case the facets appear in the fixed order filter, select, expand,
\* orderby, top, skip, count, search.  (A setter called again replaces the
\* value of the earlier call, so with repeated calls the order matters.)
C15_OrderIndependent ==
    /\ C15_EachSetterOnce => C15_SameInAnyOrder
    /\ InFacetOrder(to_query_string(query))
    /\ \A s \in Returned : InFacetOrder(s)

\* skip, top and filter were called in that order, and the string has
\* $filter first, $top second and $skip last
C15_Witness ==
    /\ Len(setters) = 3
    /\ setters[1].name = "skip" /\ setters[2].name = "top" /\ setters[3].name = "filter"
    /\ Returned # {}
    /\ SelectSeq(The(Returned), IsFacetName) = <<"$filter=", "$top=", "$skip=">>

(* C16 *)
IsOrderbyCall(c) == c.name = "orderby"

\* the text k orderby calls should leave in the $orderby facet: the entries
\* in call order, each "field asc" or "field desc", joined by commas
RECURSIVE C16_Entries(_)
C16_Entries(cs) ==
    IF cs = <<>> THEN <<>>
    ELSE (IF Len(cs) = 1 THEN <<>> ELSE C16_Entries(SubSeq(cs, 1, Len(cs) - 1)) \o <<",">>)
         \o cs[Len(cs)].arg \o <<" ">>
         \o <<IF cs[Len(cs)].order = "Desc" THEN "desc" ELSE "asc">>

\* text has the facet at some place, ended by '&' or by the end of the text
HasFacet(text, facet) ==
    \E i \in 1..Len(text) :
        /\ i + Len(facet) - 1 <= Len(text)
        /\ SubSeq(text, i, i + Len(facet) - 1) = facet
        /\ i + Len(facet) <= Len(text) => text[i + Len(facet)] = "&"
        /\ i > 1 /\ text[i - 1] \in {"?", "&"}

\* C16: after k orderby calls the builder holds exactly k entries, the
\* i-th being the field and direction of the i-th call, and the $orderby
\* facet of the serialized string is these entries in call order, each as
\* field, one space, asc or desc, joined by commas; with no orderby call
\* there is no $orderby facet.
C16_OrderbyAppends ==
    LET cs == SelectSeq(setters, IsOrderbyCall)
        text == to_query_string(query)
    IN /\ (cs = <<>>) <=> (query.orderby = {})
       /\ cs = <<>> => \A i \in 1..Len(text) : text[i] # "$orderby="
       /\ cs # <<>> =>
             /\ Len(The(query.orderby)) = Len(cs)
             /\ \A i \in 1..Len(cs) :
                    /\ The(query.orderby)[i].field = cs[i].arg
                    /\ The(query.orderby)[i].order = cs[i].order
             /\ HasFacet(text, <<"$orderby=">> \o C16_Entries(cs))
       /\ \A s \in Returned : s = text

\* orderby(status, asc) then orderby(modifiedAt, desc) was serialized to
\* ?$orderby=status asc,modifiedAt desc
C16_Witness ==
    /\ Len(setters) = 2
    /\ setters[1] = SetterCall("orderby", <<"status">>, "Asc")
    /\ setters[2] = SetterCall("orderby", <<"modifiedAt">>, "Desc")
    /\ Returned = {<<"?", "$orderby=", "status", " ", "asc", ",", "modifiedAt", " ", "desc">>}

(* C17 *)
\* a step that is not a setter call leaves every facet of the builder as it was
C17_NoSideEffect ==
    /\ setters' = setters => query' = query
    /\ (copy # {} /\ copy_serialized' # copy_serialized /\ copy_serialized' # {}) =>
          copy' = copy

\* a clone, when it is made, has the facets of the original
C17_CloneStep ==
    (copy' # copy \/ (copy_serialized # {} /\ copy_serialized' = {})) =>
        /\ copy' = {query}
        /\ to_query_string(The(copy')) = to_query_string(query)

\* two calls on the same builder returned the same string, and so did a call
\* on a clone that is still like the original
C17_SameString ==
    /\ \A i, j \in 1..Len(serialized) : serialized[i] = serialized[j]
    /\ (copy = {query} /\ copy_serialized # {} /\ serialized # <<>>) =>
          copy_serialized = {serialized[1]}

C18_FacetsSet(q) ==
    Cardinality({f \in {"filter", "select", "expand", "orderby", "top", "skip", "search"} :
                    q[f] # {}})
    + (IF q.count THEN 1 ELSE 0)

\* how many pieces of the text are the piece c
Occurrences(text, c) == Cardinality({i \in 1..Len(text) : text[i] = c})

\* the text is '?', then n facets, each begun by its name, with '&' between
\* one facet and the next and nowhere else
C18_MarkedAndJoined(text, n) ==
    /\ Len(text) >= 2
    /\ text[1] = "?" /\ Occurrences(text, "?") = 1
    /\ Len(SelectSeq(text, IsFacetName)) = n
    /\ Occurrences(text, "&") = n - 1
    /\ \A i \in 2..Len(text) :
          /\ IsFacetName(text[i]) <=> text[i - 1] \in {"?", "&"}
          /\ text[i] = "&" => i < Len(text)

\* C18: a builder on which no facet is set serializes to the empty string,
\* without a '?'; a builder with n >= 1 facets set serializes to one '?'
\* followed by the n facets joined by '&'.
C18_EmptyOrMarked ==
    LET text == to_query_string(query)
    IN /\ IF C18_FacetsSet(query) = 0
          THEN text = <<>>
          ELSE C18_MarkedAndJoined(text, C18_FacetsSet(query))
       /\ setters = <<>> <=> C18_FacetsSet(query) = 0
       /\ \A i \in 1..Len(serialized) : serialized[i] = text

\* ODataQuery::new() was serialized, to the empty string
C18_Witness ==
    /\ setters = <<>>
    /\ query = ODataQueryNew
    /\ serialized = << <<>> >>

(* C19 *)
\* the value of the $filter facet in a serialized query: what follows
\* "?$filter=" up to the next '&' or the end of the string
C19_FilterSegment(text) ==
    LET stops == {i \in 3..Len(text) : text[i] = "&"}
        last  == IF stops = {} THEN Len(text)
                 ELSE (CHOOSE i \in stops : \A j \in stops : i <= j) - 1
    IN SubSeq(text, 3, last)

\* C19: the $filter segment of the serialized string holds the filter text
\* with every space, single quote and ampersand replaced by %20, %27 and %26,
\* so it contains none of them raw, and the string has exactly one
\* '&'-separated parameter per facet that is set.
C19_FilterEncoded ==
    query.filter # {} =>
        LET text   == to_query_string(query)
            value  == The(query.filter)
            seg    == C19_FilterSegment(text)
        IN /\ text[1] = "?" /\ text[2] = "$filter="
           /\ \A i \in 1..Len(seg) : seg[i] \notin {" ", "'", "&"}
           /\ Len(seg) = Len(value)
           /\ \A i \in 1..Len(value) :
                 seg[i] = CASE value[i] = " " -> "%20"
                            [] value[i] = "'" -> "%27"
                            [] value[i] = "&" -> "%26"
                            [] OTHER -> value[i]
           /\ Occurrences(text, "&") = C18_FacetsSet(query) - 1
           /\ \A i \in 1..Len(serialized) : serialized[i] = text

\* a filter with spaces, quotes and an ampersand was serialized together
\* with a second facet
C19_Witness ==
    /\ query.filter = {<<"name", " ", "eq", " ", "'", "O", "'", "Reilly", " ", "&", " ", "Sons", "'">>}
    /\ query.top # {}
    /\ serialized # <<>>
    /\ LET seg == C19_FilterSegment(serialized[1])
       IN /\ Occurrences(seg, "%20") = 4
          /\ Occurrences(seg, "%27") = 3
          /\ Occurrences(seg, "%26") = 1

(* C20 *)
\* a delete operation of task p got an HTTP response and returned
C20_DeleteAnswered(p) ==
    /\ pc[p] = "returned"
    /\ op[p] = "DELETE"
    /\ request[p] # NoRequest
    /\ ~http[p].transport_error

\* C20: a delete operation returns Ok(()) exactly when the status of the
\* response is in 200..299 (204 included), whatever the body is, empty or not
\* JSON; for every other status it returns parse_error_response(status, body).
\* The second conjunct states the same of the interpretation as a function,
\* over more statuses and bodies than the operations of the model receive;
\* it does not depend on the state and is evaluated before the first request.
C20_DeleteByStatus ==
    /\ \A p \in Callers :
          C20_DeleteAnswered(p) =>
              /\ api_result[p].kind = "Ok" <=> http[p].status \in 200..299
              /\ http[p].status \in 200..299 => api_result[p] = ApiOk(NoContent)
              /\ http[p].status \notin 200..299 =>
                    api_result[p] = parse_error_response(http[p].status, http[p].body)
    /\ resource_requests = 0 =>
          \A st \in ErrorStatuses \cup ResourceStatuses \cup {199, 299, 300}, b \in ErrorBodies :
              delete_response(ResourceResponse(st, b)) =
                  IF st \in 200..299 THEN ApiOk(NoContent) ELSE parse_error_response(st, b)

\* a delete was answered 204 with an empty body and returned Ok(())
C20_Witness ==
    \E p \in Callers :
        /\ C20_DeleteAnswered(p)
        /\ http[p].status = 204
        /\ http[p].body = NoContent
        /\ api_result[p] = ApiOk(NoContent)

(* C21 *)
\* a GET, POST or PATCH of task p got a 2xx response whose body does not
\* deserialize into the target type, and is over
C21_ParseFailed(p) ==
    /\ pc[p] = "returned"
    /\ op[p] \in {"GET", "POST", "PATCH"}
    /\ request[p] # NoRequest
    /\ ~http[p].transport_error
    /\ http[p].status \in 200..299
    /\ DeserializeTarget(http[p].body) = {}

\* the text laid out as part is the first bytes of the text laid out as whole
C21_IsPrefix(part, whole) ==
    /\ ByteLen(part) <= ByteLen(whole)
    /\ is_char_boundary(whole, ByteLen(part))
    /\ SliceTo(whole, ByteLen(part)) = part

\* the operation returned a parse error whose excerpt is a prefix of the
\* body of at most 200 bytes, and not the whole body when that is longer
C21_BoundedExcerpt(p) ==
    /\ api_result[p].kind = "Err"
    /\ api_result[p].err = "JsonParse"
    /\ C21_IsPrefix(api_result[p].body.chars, http[p].body.chars)
    /\ ByteLen(api_result[p].body.chars) <= 200
    /\ ByteLen(http[p].body.chars) > 200 => api_result[p].body # http[p].body

\* C21: for every 2xx response to a GET, POST or PATCH whose body fails to
\* deserialize into the target type, whatever its length or content (empty,
\* with multi-byte characters), the operation returns a parse error whose
\* body excerpt is a prefix of the body of at most 200 bytes, never the full
\* body when it is longer, and the operation does not crash.
C21_AsClaimed ==
    \A p \in Callers : C21_ParseFailed(p) => C21_BoundedExcerpt(p)

\* a body of 199 one-byte characters, a two-byte character and more came
\* with status 200, and the operation panicked at the slice
C21_Witness ==
    \E p \in Callers :
        /\ C21_ParseFailed(p)
        /\ http[p].body = StraddlingUtf8Text
        /\ ~is_char_boundary(http[p].body.chars, 200)
        /\ api_result[p] = ApiPanic

(* C22 *)
\* the header the claim assigns to a mode and a token
C22_Header(sandbox, token) ==
    IF sandbox THEN <<"APIKey", <<token>>>> ELSE <<"Authorization", <<"Bearer ", token>>>>

\* the credential manager produced the token of task p in static-key mode:
\* it is the configured key, and no token was ever requested or cached
C22_KeyFromConfig(p) ==
    /\ result[p].token \in config.api_key
    /\ token_requests = 0
    /\ \A r \in CacheRefs : ~token_cache[r].some

\* C22: the auth header of every resource request is a function of the mode
\* and the token alone: APIKey with the raw key in static-key mode,
\* Authorization with "Bearer " and the token in token mode, the token being
\* the one get_token returned to the operation; the mode an ODataClient holds
\* is the mode of the credential manager it was built with and never
\* changes, and a header is the APIKey one exactly when the credential
\* manager produced its token in static-key mode.
C22_HeaderByMode ==
    /\ [](\A k \in ODataClients : odata_client[k].is_sandbox = config.sandbox)
    /\ [][odata_client' = odata_client /\ config' = config]_vars
    /\ [](\A p \in Callers :
            request[p] # NoRequest =>
                /\ result[p].kind = "Ok"
                /\ request[p].header = C22_Header(config.sandbox, result[p].token)
                /\ request[p].header[1] = "APIKey" <=> C22_KeyFromConfig(p)
                /\ request[p].header[1] = "Authorization" <=> result[p].token >= 1)

\* a request went out in static-key mode with the APIKey header and the raw key
C22_Witness ==
    \E p \in Callers :
        /\ config.sandbox
        /\ request[p] # NoRequest
        /\ request[p].header = <<"APIKey", <<ApiKeyValue>>>>

(* C23 *)
\* an operation of task p got a non-2xx response whose body parses as the
\* structured error envelope, and is over
C23_EnvelopeAnswered(p) ==
    /\ pc[p] = "returned"
    /\ op[p] \in Verbs
    /\ request[p] # NoRequest
    /\ ~http[p].transport_error
    /\ http[p].status \notin 200..299
    /\ C12_IsEnvelope(http[p].body)

\* the structured protocol error with the status and the envelope's code and message
C23_Structured(p) ==
    api_result[p] =
        ApiErr("ODataError", http[p].status, http[p].body.code, http[p].body.message, NoContent)

C24_NeverEmptied ==
    /\ [][\A r \in CacheRefs : token_cache[r].some => token_cache'[r].some]_vars
    /\ [](config.sandbox => \A r \in CacheRefs : token_cache[r] = EmptyCache)

\* the second token request failed and the credential of the first is
\* still in the cache
C24_Witness ==
    \E p \in Callers :
        /\ pc[p] = "returned"
        /\ result[p].kind = "Err" /\ result[p].err = "TokenRequestFailed"
        /\ token_requests = 2
        /\ token_cache[RootRef].some
        /\ token_cache[RootRef].access_token = 1

(* C25 *)
\* in this step no cached credential is replaced by one of the same server
\* lifetime that expires earlier
C25_NoEarlierExpiry ==
    \A r \in CacheRefs :
        (/\ token_cache[r].some /\ token_cache'[r].some
         /\ token_cache[r].from # NoOrigin
         /\ token_cache'[r].from.expires_in = token_cache[r].from.expires_in) =>
            token_cache'[r].expires_at >= token_cache[r].expires_at

\* C25 as claimed: the clock being monotonic and the lifetime the same, the
\* expires_at of the cached credential never decreases, however the
\* get_token calls interleave.
C25_AsClaimed == [][C25_NoEarlierExpiry]_vars

\* the call of p completes its store in this step
C25_Stores(p) == pc[p] = "writing" /\ pc'[p] # "writing"

\* C25: a refresh that completes leaves its own credential in the cache,
\* with the expiry it computed when it read its response, whatever was there
\* before (the last store wins); as long as no get_token call has started
\* while another was running, the expires_at of the cached credential never
\* decreases.
C25_LastStoreWins ==
    /\ [][\A p \in Callers : C25_Stores(p) => token_cache'[CellOf(p)] = cached[p]]_vars
    /\ [][~overlap' => C25_NoEarlierExpiry]_vars

\* two refreshes overlapped, both returned their token, and the cache holds
\* the credential of the first request, stored last
C25_Witness ==
    /\ overlap
    /\ token_requests = 2
    /\ \E p, q \in Callers :
         /\ pc[p] = "returned" /\ result[p] = Ok(1)
         /\ pc[q] = "returned" /\ result[q] = Ok(2)
    /\ token_cache[RootRef].access_token = 1
    /\ token_cache[RootRef].from.token = 1
    /\ token_cache[RootRef].expires_at < now + token_cache[RootRef].from.expires_in

(* C26 *)
\* who holds the lock: a reader only between taking the guard and the cache
\* check, a writer only during the assignment; nobody while its token
\* request is out or while it waits for the write lock
C26_LockHolders ==
    \A p \in Callers :
        /\ p \in readers <=> pc[p] = "read_locked"
        /\ p \in writer <=> pc[p] = "writing"
        /\ pc[p] \in {"await_token", "write_wait"} => (p \notin readers /\ p \notin writer)

\* some step of the get_token call of p
C26_CallStep(p) ==
    \/ GetTokenSandbox(p)
    \/ AcquireRead(p)
    \/ CheckCache(p)
    \/ ReceiveTokenResponse(p)
    \/ AcquireWrite(p)
    \/ StoreAndReturn(p)

\* while calls are running one of them can take a step
C26_NoDeadlock ==
    (\E p \in Callers : Running(p)) => \E p \in Callers : ENABLED C26_CallStep(p)

\* a caller at the cache is let in unless another is in the middle of the
\* assignment, however many token requests are out; and once in, it checks
\* the cache at once
C26_ReaderNotHeldUp ==
    \A p \in Callers :
        /\ (pc[p] = "get_token" /\ ~config.sandbox /\ \A q \in Callers : pc[q] # "writing") =>
              ENABLED AcquireRead(p)
        /\ pc[p] = "read_locked" => ENABLED CheckCache(p)

\* C26: the cache lock is never held across the token request: the read
\* lock is released before the fetch starts and the write lock is held only
\* for the assignment of the new credential; so concurrent get_token calls
\* cannot deadlock, a caller is not made to wait for the token request of
\* another, and every get_token call returns, its own token request being
\* answered.
C26_LockNotHeldAcrossFetch ==
    /\ [](C26_LockHolders /\ C26_NoDeadlock /\ C26_ReaderNotHeldUp)
    /\ \A p \in Callers : (pc[p] = "get_token") ~> (pc[p] = "returned")

\* one caller waits for its token response holding no lock, the refresh of
\* the other having stored its credential and returned
C26_Witness ==
    \E p, q \in Callers :
        /\ pc[p] = "await_token" /\ readers = {} /\ writer = {}
        /\ pc[q] = "returned" /\ result[q].kind = "Ok"
        /\ result[q].token = token_cache[RootRef].access_token
        /\ token_requests = 2 /\ calls = 2
        /\ result[q].token = 1 /\ req_no[p] = 2

(* C27 *)
\* the credential in cell r came with a lifetime of at most the refresh buffer
C27_ShortLived(cell) ==
    cell.some /\ cell.from # NoOrigin /\ cell.from.expires_in <= BufferSeconds

\* p makes its cache check in this step
C27_Checks(p) == pc[p] = "read_locked" /\ pc'[p] # "read_locked"

\* every cache check that finds a short-lived credential sends a token request
C27_AlwaysRefetched ==
    \A p \in Callers :
        (C27_Checks(p) /\ C27_ShortLived(token_cache[CellOf(p)])) =>
            /\ pc'[p] = "await_token"
            /\ token_requests' = token_requests + 1
            /\ result'[p] = result[p]

\* a short-lived credential is stored all the same, and its token returned
C27_StillStored ==
    \A p \in Callers :
        (C25_Stores(p) /\ cached[p].from.expires_in <= BufferSeconds) =>
            /\ token_cache'[CellOf(p)] = cached[p]
            /\ result'[p] = Ok(cached[p].access_token)

\* lifetimes down to zero and below: the credential built from one is
\* expired at the moment it is built and at every later moment
C27_ExpiredFromTheStart ==
    \A l \in -1..2, b \in TokenBuffers, t0 \in Times, t \in Times :
        (l <= b /\ t0 <= t) =>
            is_expired(NewCachedToken([access_token |-> 1, expires_in |-> l], t0, b, "features"),
                       t, b)

\* C27: a token whose lifetime expires_in is at most the refresh buffer is
\* cached and returned to the caller that fetched it, but no cache check
\* ever accepts it: while it is the cached credential now + buffer >=
\* expires_at, and every get_token call that reaches the cache sends a new
\* token request.
C27_NeverHit ==
    /\ [](\A r \in CacheRefs :
            C27_ShortLived(token_cache[r]) => now + BufferSeconds >= token_cache[r].expires_at)
    /\ [](calls = 0 => C27_ExpiredFromTheStart)
    /\ [][C27_AlwaysRefetched /\ C27_StillStored]_vars

\* the first token had a lifetime equal to the buffer, was returned and
\* cached, and the next call is waiting for the answer to its own request
C27_Witness ==
    \E p, q \in Callers :
        /\ token_cache[RootRef].access_token = 1
        /\ token_cache[RootRef].from.expires_in = BufferSeconds
        /\ pc[q] = "returned" /\ result[q] = Ok(1)
        /\ pc[p] = "await_token" /\ req_no[p] = 2
        /\ ~overlap

(* C28 *)
\* the results get_token produces only from a configuration that lacks a field
C28_ConfigurationErrors ==
    { Err("NoToken", ""),
      Err("TokenParse", "No token URL in sandbox mode"),
      Err("TokenParse", "Missing client_id"),
      Err("TokenParse", "Missing client_secret") }

\* C28: with a configuration that Config::validate accepts, no get_token
\* call ends in NoToken, in the missing token-URL, missing client_id or
\* missing client_secret error, or in a panic over an absent tenant or
\* region.
C28_NoConfigurationError ==
    Validate(config) =>
        \A p \in Callers :
            /\ result[p] \notin C28_ConfigurationErrors
            /\ result[p].kind # "Panic"
            /\ pc[p] = "read_locked" => FetchPrecheck(config) = NoResult

\* an accepted OAuth2 configuration whose fetch went out and brought a token
C28_Witness ==
    /\ Validate(config) /\ ~config.sandbox
    /\ \E p \in Callers :
        /\ pc[p] = "returned" /\ result[p] = Ok(1)
        /\ token_requests >= 1

\* the resource requests p's operation has issued so far
RequestsOf(p) == Cardinality({i \in DOMAIN steps[p] : steps[p][i] = "request"})

(* C29 *)
\* p's request for one feature is on the wire
C29_Requested(p) ==
    /\ feature_call[p].stage \in {"entity", "expand"}
    /\ request[p] # NoRequest
    /\ RequestsOf(p) = (IF feature_call[p].stage = "expand" THEN 2 ELSE 1)

\* the key p's operation asks for: the uuid it was called with, or the
\* one its list request found
C29_Key(p) == IF feature_call[p].stage = "expand" THEN "u-1" ELSE "abc-123"

\* base_url + endpoint + "/" + key for the features client
C29_ByKey(key) == <<"https://x", "/Features", "/Features", "/", key>>

\* the relations of an expand argument, joined by commas in the given order
C29_Joined(relations) ==
    CASE relations = << <<"toStatus">> >> -> <<"toStatus">>
      [] relations = << <<"toProject">>, <<"toStatus">> >> -> <<"toProject", ",", "toStatus">>
      [] OTHER -> <<"no such argument">>

\* C29: get_entity_with_expand with an empty expand list requests exactly
\* base_url + endpoint + "/" + key, the URL get_entity_by_uuid requests for
\* that key, with no '?'; with a non-empty list it requests that URL
\* followed by ?$expand= and the relations joined by commas in the order
\* given.
C29_ExpandRefinesByKey ==
    \A p \in Callers :
        C29_Requested(p) =>
            /\ request[p].method = "GET"
            /\ feature_call[p].fn = "get_feature" => request[p].url = C29_ByKey(C29_Key(p))
            /\ (feature_call[p].fn # "get_feature" /\ feature_call[p].expand = <<>>) =>
                   request[p].url = C29_ByKey(C29_Key(p))
            /\ (feature_call[p].fn # "get_feature" /\ feature_call[p].expand # <<>>) =>
                   request[p].url = C29_ByKey(C29_Key(p)) \o <<"?$expand=">>
                                    \o C29_Joined(feature_call[p].expand)

\* a get_feature_with_expand for two relations has its request on the wire
C29_Witness ==
    \E p \in Callers :
        /\ C29_Requested(p)
        /\ feature_call[p].fn = "get_feature_with_expand"
        /\ feature_call[p].expand = << <<"toProject">>, <<"toStatus">> >>
        /\ request[p].url = <<"https://x", "/Features", "/Features", "/", "abc-123",
                              "?$expand=", "toProject", ",", "toStatus">>

(* C30 *)
\* p is in get_feature_by_display_id_with_expand
C30_Call(p) == feature_call[p].fn = "get_feature_by_display_id_with_expand"

\* the list of features filtered by displayId, top 1
C30_ListUrl ==
    <<"https://x", "/Features", "/Features", "?", "$filter=", "displayId", "%20", "eq", "%20",
      "%27", "6-123", "%27", "&", "$top=", "1">>

\* p's operation is over after its list request and before any other
C30_EndedAfterList(p) ==
    /\ C30_Call(p)
    /\ pc[p] = "returned"
    /\ feature_call[p].stage = "list"
    /\ RequestsOf(p) = 1

\* the list request failed: no answer, an answer that is not 2xx, or a
\* body that is no list of features
C30_ListFailed(p) ==
    \/ http[p].transport_error
    \/ ~is_success(http[p].status)
    \/ "value" \notin http[p].body.members

\* the order of the two requests: the list request comes first, and a
\* second request goes out only after a list answer with a feature that
\* has a uuid
C30_TwoSteps(p) ==
    /\ RequestsOf(p) <= 2
    /\ (RequestsOf(p) = 1 /\ feature_call[p].stage = "list") =>
           request[p] = Request("GET", C30_ListUrl, request[p].header)
    /\ feature_call[p].stage = "expand" =>
           /\ feature_call[p].listed.kind = "Ok"
           /\ "value[0].uuid" \in feature_call[p].listed.body.members
    /\ RequestsOf(p) = 2 => feature_call[p].stage = "expand"

\* the results without a second request, the failure of the list request
\* apart
C30_NotFoundOrNoUuid(p) ==
    (C30_EndedAfterList(p) /\ ~C30_ListFailed(p)) =>
        /\ api_result[p].kind = "Err" /\ api_result[p].err = "HttpError"
        /\ "value[0]" \notin http[p].body.members => api_result[p].status = 404
        /\ "value[0]" \in http[p].body.members =>
               /\ "value[0].uuid" \notin http[p].body.members
               /\ api_result[p].status = 500

\* C30: get_feature_by_display_id_with_expand first lists features filtered
\* by displayId with top 1 and issues the second request only if the first
\* succeeded and returned a feature that has a uuid; if the first request
\* fails its error is returned unchanged, if the list is empty the result
\* is an HTTP error with status 404, if the uuid is missing an HTTP error
\* with status 500, each time with exactly one resource request issued.
C30_TwoStepProtocol ==
    \A p \in Callers :
        C30_Call(p) =>
            /\ C30_TwoSteps(p)
            /\ C30_NotFoundOrNoUuid(p)
            /\ (C30_EndedAfterList(p) /\ C30_ListFailed(p)) =>
                   /\ api_result[p].kind = "Err"
                   /\ api_result[p] = Interpret("features", "GET", http[p])

\* the list request was answered 200 with a text that is no JSON and has a
\* two-byte character across byte 200, and the operation ended in a panic
C30_Witness ==
    \E p \in Callers :
        /\ C30_EndedAfterList(p)
        /\ http[p] = ResourceResponse(200, StraddlingUtf8Text)
        /\ api_result[p].kind = "Panic"

====
